---------------------------- MODULE Spec2Model ----------------------------
(***************************************************************************)
(* State-machine model of the gated working-memory core of leabrax:        *)
(*   - agate/neuron.go  : PFCDeepLayer gating state machine                *)
(*   - pcore/matrix.go  : MatrixLayer DA derivation, MatrixPrjn trace DWt  *)
(*   - pvlv/pv_layer.go : PVLayer primary-value broadcast                  *)
(* float32 values are modelled as exact rationals <<num, den>> (rounding   *)
(* is not modelled); Go slices are functions over 0..n-1.                  *)
(***************************************************************************)
EXTENDS Integers, Sequences, FiniteSets, TLC

VARIABLES
    ltime,       \* leabra.Time: [Quarter, Cycle]
    err,         \* "ok", or "panic" once a Go runtime panic has ended the run
    last,        \* history: the operation of the last step and the counters before it
    \* ---- agate/neuron.go
    net,         \* Network: the set of layer names LayerByName can resolve
    Gate,        \* PFCDeepLayer.Gate  (PFCGateParams) per deep layer
    Maint,       \* PFCDeepLayer.Maint (PFCMaintParams) per deep layer
    GateStates,  \* GateLayer.GateStates per deep layer: pool -> [Now, Act, Cnt]
    PFCNeurs,    \* PFCDeepLayer.PFCNeurs per deep layer: unit -> [Maint, MaintGe]
    Neurons,     \* super layers' Neurons: unit -> Act
    \* ---- pcore/matrix.go
    Mtx,         \* MatrixLayers: name -> [DaR, Matrix, DA, DALrn, ACh, AlphaMaxs, Neurons]
    Thal,        \* the VThal layer's AlphaMaxs: pool -> peak activation
    Send,        \* the sending layer's Neurons: unit -> ActLrn
    Prjns,       \* MatrixPrjns: name -> [Trace, Learn, Syns, TrSyns]
    hist,        \* history of the learning steps: [daAt, trials, log]
    \* ---- pvlv/pv_layer.go
    PV,          \* PVLayer: [Neurons, SendPVQuarter, PVReceivers]
    ModNeurs,    \* receiver layers' ModNeurs: name -> unit -> PVAct
    \* ---- agate/neuron.go, DeepMaint over layers of any shape
    dm           \* a deep layer and its super layer: [Shp, SShp, NDyns, Cnt, ran, dtyp, units]

pfcVars == <<Gate, Maint, GateStates, PFCNeurs, Neurons>>
mtxVars == <<Mtx, Thal, Send, Prjns, hist>>
pvVars == <<PV, ModNeurs>>
vars == <<ltime, err, last, net, pfcVars, mtxVars, pvVars, dm>>

---------------------------------------------------------------------------
(* Exact rational arithmetic standing for float32.                         *)

Abs(n) == IF n < 0 THEN -n ELSE n

RECURSIVE Gcd(_, _)
Gcd(a, b) == IF b = 0 THEN a ELSE Gcd(b, a % b)

Norm(n, d) ==
    LET s == IF d < 0 THEN -1 ELSE 1
        g == Gcd(Abs(n), Abs(d))
    IN  <<(s * n) \div g, (s * d) \div g>>

Rat(n, d) == Norm(n, d)
Zero == <<0, 1>>
One == <<1, 1>>
RAdd(a, b) == Norm(a[1] * b[2] + b[1] * a[2], a[2] * b[2])
RNeg(a) == <<-a[1], a[2]>>
RSub(a, b) == RAdd(a, RNeg(b))
RMul(a, b) == Norm(a[1] * b[1], a[2] * b[2])
RLt(a, b) == a[1] * b[2] < b[1] * a[2]
RLe(a, b) == a[1] * b[2] <= b[1] * a[2]
RAbs(a) == <<Abs(a[1]), a[2]>>
RMin(a, b) == IF RLt(b, a) THEN b ELSE a
RMax(a, b) == IF RLt(a, b) THEN b ELSE a

---------------------------------------------------------------------------
(* leabra.Time and leabra.Quarters                                         *)

Q1 == 0
Q2 == 1
Q3 == 2
Q4 == 3
Quarters == Q1 .. Q4

\* Quarters.Has: the bit of quarter q is set in the flag set
Has(qtrs, q) == q \in qtrs

\* history of a step of the environment (no layer operation ran)
EnvStep == [op |-> "env", ly |-> <<>>, pre |-> <<>>, decays |-> <<>>, upto |-> 0]

\* end of a quarter: the stepped simulation moves to the next one
NextQuarter ==
    /\ err = "ok"
    /\ ltime' = [ltime EXCEPT !.Quarter = (ltime.Quarter + 1) % 4, !.Cycle = 0]
    /\ last' = EnvStep
    /\ UNCHANGED <<err, net, pfcVars, mtxVars, pvVars, dm>>

---------------------------------------------------------------------------
(* agate/neuron.go: the network's PFC layers.  A layer name is the         *)
(* sequence of its characters, so the name arithmetic of MaintPFC and      *)
(* SuperPFC is the code's slicing.                                         *)

MntD == <<"m", "n", "t", "D">>
OutD == <<"o", "u", "t", "D">>
DeepLayers == {MntD, OutD}

\* the 4D shapes of a deep layer and of a super layer: pools in y and x,
\* units per pool in y and x (Shp.Dim(0) .. Shp.Dim(3))
DeepShp == <<1, 1, 1, 1>>
SuperShp == <<1, 1, 1, 1>>
\* number of pools (stripes) of each PFC layer: len(ly.GateStates)
NPools == DeepShp[1] * DeepShp[2]
PoolIdx == 0 .. NPools - 1
YN == DeepShp[3]
XN == DeepShp[4]
SYN == SuperShp[3]
SXN == SuperShp[4]
NUnits == NPools * YN * XN
SNUnits == NPools * SYN * SXN

\* PFCDyns: the dynamics table, empty here; Value(dyn, time) is 1 when empty
Dyns == <<>>
DynsValue(dyn, t) ==
    IF Len(Dyns) = 0 THEN One
    ELSE IF t <= 0 THEN Dyns[dyn + 1].Init ELSE Dyns[dyn + 1].Tab[t]

\* bounds of the model: MaxMaint of a maintenance layer (100 by default),
\* and the caps on the counters
MaxMaintMnt == 3
CntCap == 4
IdleCap == 2

\* MaintPFC: same name but outD -> mntD; NIL when LayerByName finds none
NIL == <<>>
MaintPFC(ly) ==
    LET sz == Len(ly)
        mnm == SubSeq(ly, 1, sz - 4) \o <<"m", "n", "t", "D">>
    IN  IF mnm \in net THEN mnm ELSE NIL

\* SuperPFC: same name without the final D; NIL when LayerByName finds none
SuperPFC(ly) ==
    LET dnm == SubSeq(ly, 1, Len(ly) - 1)
    IN  IF dnm \in net THEN dnm ELSE NIL

SuperLayers == {SubSeq(ly, 1, Len(ly) - 1) : ly \in DeepLayers}

\* PFCGateParams.Defaults
GateParamsDefaults(gp) ==
    [gp EXCEPT !.GateQtr = {Q2, Q4}, !.OutQ1Only = TRUE]

\* PFCMaintParams.Defaults
MaintParamsDefaults(mp) ==
    [mp EXCEPT !.MaintGain = Rat(4, 5), !.OutClearMaint = FALSE,
               !.Clear = Zero, !.MaxMaint = 100]

\* PFCDeepLayer.Defaults (Dyns is empty here, so UseDyn is false)
LayerDefaults(gp, mp) ==
    LET g == GateParamsDefaults(gp)
        m == MaintParamsDefaults(mp)
        q1 == g.OutGate /\ g.OutQ1Only
    IN  [Gate |-> IF q1 THEN [g EXCEPT !.GateQtr = {Q1}] ELSE g,
         Maint |-> [(IF q1 THEN [m EXCEPT !.MaxMaint = 1] ELSE m)
                        EXCEPT !.UseDyn = FALSE]]

ZeroGate == [GateQtr |-> {}, OutGate |-> FALSE, OutQ1Only |-> FALSE]
ZeroMaint == [UseDyn |-> FALSE, MaintGain |-> Zero, OutClearMaint |-> FALSE,
              Clear |-> Zero, MaxMaint |-> 0]

\* leabra Layer.DecayStatePool(pool, decay): the pool's activations move
\* the fraction decay of the way to zero
DecayStatePool(nrs, pool, decay) ==
    [si \in DOMAIN nrs |->
        IF si \div (SYN * SXN) = pool
        THEN RSub(nrs[si], RMul(decay, nrs[si]))
        ELSE nrs[si]]

---------------------------------------------------------------------------
(* The operations thread a record st through the code's loops:             *)
(*   GS  GateStates, PN  PFCNeurs, NR  super Neurons, err, decays (the     *)
(*   DecayStatePool calls made, in order), upto (the number of pools       *)
(*   Gating's loop got to).                                                *)

CurSt == [GS |-> GateStates, PN |-> PFCNeurs, NR |-> Neurons,
          err |-> "ok", decays |-> <<>>, upto |-> 0]

Panic(st) == [st EXCEPT !.err = "panic"]

\* variant of ClearMaint: clears only pools held for more than one count
ClearMaintAboveOne(ly, pool, st) ==
    LET pfcm == MaintPFC(ly)
    IN  IF pfcm = NIL THEN st
        ELSE IF st.GS[pfcm][pool].Cnt > 1
        THEN LET st1 == [st EXCEPT !.GS[pfcm][pool].Cnt = -1]
                 pfcs == SuperPFC(pfcm)
             IN  IF pfcs = NIL THEN Panic(st1)
                 ELSE [st1 EXCEPT
                         !.NR[pfcs] = DecayStatePool(@, pool, Maint[pfcm].Clear),
                         !.decays = Append(@, <<pfcs, pool, Maint[pfcm].Clear>>)]
        ELSE st

\* variant of ClearMaint: the cleared pool's units lose their Maint at once
ClearMaintZeroMaint(ly, pool, st) ==
    LET pfcm == MaintPFC(ly)
    IN  IF pfcm = NIL THEN st
        ELSE IF st.GS[pfcm][pool].Cnt >= 1
        THEN LET st1 == [st EXCEPT !.GS[pfcm][pool].Cnt = -1,
                                   !.PN[pfcm] = [ni \in DOMAIN @ |->
                                       IF ni \div (YN * XN) = pool
                                       THEN [Maint |-> Zero, MaintGe |-> Zero]
                                       ELSE @[ni]]]
                 pfcs == SuperPFC(pfcm)
             IN  IF pfcs = NIL THEN Panic(st1)
                 ELSE [st1 EXCEPT
                         !.NR[pfcs] = DecayStatePool(@, pool, Maint[pfcm].Clear),
                         !.decays = Append(@, <<pfcs, pool, Maint[pfcm].Clear>>)]
        ELSE st

\* variant of ClearMaint: a just-gated pool (Cnt = 0) is cleared as well
ClearMaintJustGated(ly, pool, st) ==
    LET pfcm == MaintPFC(ly)
    IN  IF pfcm = NIL THEN st
        ELSE IF st.GS[pfcm][pool].Cnt >= 0
        THEN LET st1 == [st EXCEPT !.GS[pfcm][pool].Cnt = -1]
                 pfcs == SuperPFC(pfcm)
             IN  IF pfcs = NIL THEN Panic(st1)
                 ELSE [st1 EXCEPT
                         !.NR[pfcs] = DecayStatePool(@, pool, Maint[pfcm].Clear),
                         !.decays = Append(@, <<pfcs, pool, Maint[pfcm].Clear>>)]
        ELSE st

\* variant of ClearMaint: the pool is cleared whatever its Cnt is
ClearMaintAnyCnt(ly, pool, st) ==
    LET pfcm == MaintPFC(ly)
    IN  IF pfcm = NIL THEN st
        ELSE LET st1 == [st EXCEPT !.GS[pfcm][pool].Cnt = -1]
                 pfcs == SuperPFC(pfcm)
             IN  IF pfcs = NIL THEN Panic(st1)
                 ELSE [st1 EXCEPT
                         !.NR[pfcs] = DecayStatePool(@, pool, Maint[pfcm].Clear),
                         !.decays = Append(@, <<pfcs, pool, Maint[pfcm].Clear>>)]

\* ClearMaint resets maintenance in corresponding pool in maintenance layer
ClearMaint(ly, pool, st) ==
    LET pfcm == MaintPFC(ly)
    IN  IF pfcm = NIL THEN st
        ELSE IF st.GS[pfcm][pool].Cnt >= 1
        THEN LET st1 == [st EXCEPT !.GS[pfcm][pool].Cnt = -1]
                 pfcs == SuperPFC(pfcm)
             IN  IF pfcs = NIL THEN Panic(st1)   \* nil.AsLeabra()
                 ELSE [st1 EXCEPT
                         !.NR[pfcs] = DecayStatePool(@, pool, Maint[pfcm].Clear),
                         !.decays = Append(@, <<pfcs, pool, Maint[pfcm].Clear>>)]
        ELSE st

\* variant of GateEvent: the output gate clears whatever OutClearMaint is
GateEventAlwaysClear(ly, gi, st) ==
    LET gs == st.GS[ly][gi]
    IN  IF RLt(Zero, gs.Act)
        THEN LET s0 == [st EXCEPT !.GS[ly][gi].Cnt = 0]
             IN  IF Gate[ly].OutGate
                 THEN ClearMaint(ly, gi, s0)
                 ELSE LET pfcs == SuperPFC(ly)
                      IN  IF pfcs = NIL THEN Panic(s0)
                          ELSE [s0 EXCEPT
                                 !.NR[pfcs] =
                                    DecayStatePool(@, gi, Maint[ly].Clear),
                                 !.decays =
                                    Append(@, <<pfcs, gi, Maint[ly].Clear>>)]
        ELSE st

\* variant of GateEvent: Now alone gates, whatever Act is
GateEventAnyAct(ly, gi, st) ==
    LET s0 == [st EXCEPT !.GS[ly][gi].Cnt = 0]
    IN  IF Gate[ly].OutGate
        THEN IF Maint[ly].OutClearMaint
             THEN ClearMaint(ly, gi, s0) ELSE s0
        ELSE LET pfcs == SuperPFC(ly)
             IN  IF pfcs = NIL THEN Panic(s0)
                 ELSE [s0 EXCEPT
                        !.NR[pfcs] = DecayStatePool(@, gi, Maint[ly].Clear),
                        !.decays = Append(@, <<pfcs, gi, Maint[ly].Clear>>)]

\* the gate event of Gating's loop body: if gs.Act > 0 { ... }
GateEvent(ly, gi, st) ==
    LET gs == st.GS[ly][gi]
    IN  IF RLt(Zero, gs.Act)
        THEN LET s0 == [st EXCEPT !.GS[ly][gi].Cnt = 0]
             IN  IF Gate[ly].OutGate
                 THEN IF Maint[ly].OutClearMaint
                      THEN ClearMaint(ly, gi, s0) ELSE s0
                 ELSE LET pfcs == SuperPFC(ly)
                      IN  IF pfcs = NIL THEN Panic(s0)  \* nil.AsLeabra()
                          ELSE [s0 EXCEPT
                                 !.NR[pfcs] =
                                    DecayStatePool(@, gi, Maint[ly].Clear),
                                 !.decays =
                                    Append(@, <<pfcs, gi, Maint[ly].Clear>>)]
        ELSE st

\* variant of the loop body: the duration test is missing
GatingPoolNoExpiry(ly, gi, st) ==
    IF ~st.GS[ly][gi].Now THEN st ELSE GateEvent(ly, gi, st)

\* variant of the loop body: the duration test reads the counter the pool
\* had before the gate event
GatingPoolExpiryFirst(ly, gi, st) ==
    LET gs == st.GS[ly][gi]
    IN  IF ~gs.Now THEN st
        ELSE LET st1 == GateEvent(ly, gi, st)
             IN  IF st1.err = "panic" THEN st1
                 ELSE IF gs.Cnt >= Maint[ly].MaxMaint
                 THEN [st1 EXCEPT !.GS[ly][gi].Cnt = -1]
                 ELSE st1

\* the body of Gating's loop for pool gi
GatingPool(ly, gi, st) ==
    LET gs == st.GS[ly][gi]
    IN  IF ~gs.Now THEN st                        \* not gating now: continue
        ELSE LET st1 == GateEvent(ly, gi, st)
             IN  IF st1.err = "panic" THEN st1
                 ELSE IF st1.GS[ly][gi].Cnt >= Maint[ly].MaxMaint
                 THEN [st1 EXCEPT !.GS[ly][gi].Cnt = -1]
                 ELSE st1

RECURSIVE GatingLoop(_, _, _)
GatingLoop(ly, gi, st) ==
    IF gi >= NPools \/ st.err = "panic" THEN st
    ELSE GatingLoop(ly, gi + 1, GatingPool(ly, gi, [st EXCEPT !.upto = gi + 1]))

\* whether Gating returns before its loop (output gating, first quarters only)
GatingSkipped(ly) ==
    Gate[ly].OutGate /\ Gate[ly].OutQ1Only /\ ltime.Quarter > 1

\* Gating updates PFC Gating state
Gating(ly, st) ==
    IF GatingSkipped(ly) THEN st ELSE GatingLoop(ly, 0, st)

\* variant of UpdtGateCnt: every counter is incremented
UpdtGateCntAllUp(ly, st) ==
    IF ~Has(Gate[ly].GateQtr, ltime.Quarter) THEN st
    ELSE [st EXCEPT !.GS[ly] =
            [gi \in PoolIdx |-> [@[gi] EXCEPT !.Cnt = @ + 1]]]

\* UpdtGateCnt updates the gate counter
UpdtGateCnt(ly, st) ==
    IF ~Has(Gate[ly].GateQtr, ltime.Quarter) THEN st
    ELSE [st EXCEPT !.GS[ly] =
            [gi \in PoolIdx |->
                IF @[gi].Cnt < 0
                THEN [@[gi] EXCEPT !.Cnt = @ - 1]
                ELSE [@[gi] EXCEPT !.Cnt = @ + 1]]]

\* variant of DeepMaintUnit: the super activation is copied on every
\* eligible quarter of a maintaining pool, not only on the first
DeepMaintUnitResample(ly, sly, dtyp, ni, st) ==
    LET nn == YN * XN
        snn == SYN * SXN
        ui == ni % nn
        pi == ni \div nn
        uy == ui \div XN
        ux == ui % XN
        gs == st.GS[ly][pi]
        sy == uy % SYN
        si == pi * snn + sy * SXN + ux
        st1 == IF gs.Cnt < 0
               THEN [st EXCEPT !.PN[ly][ni].Maint = Zero,
                               !.PN[ly][ni].MaintGe = Zero]
               ELSE IF si \notin DOMAIN st.NR[sly] THEN Panic(st)
                    ELSE [st EXCEPT !.PN[ly][ni].Maint =
                              RMul(Maint[ly].MaintGain, st.NR[sly][si])]
    IN  IF st1.err = "panic" THEN st1
        ELSE [st1 EXCEPT !.PN[ly][ni].MaintGe = st1.PN[ly][ni].Maint]

\* the body of DeepMaint's loop for unit ni
DeepMaintUnit(ly, sly, dtyp, ni, st) ==
    LET nn == YN * XN
        snn == SYN * SXN
        ui == ni % nn
        pi == ni \div nn
        uy == ui \div XN
        ux == ui % XN
        gs == st.GS[ly][pi]                       \* nrn.SubPool-1
        sy == uy % SYN
        si == pi * snn + sy * SXN + ux
        st1 == IF gs.Cnt < 0
               THEN [st EXCEPT !.PN[ly][ni].Maint = Zero,
                               !.PN[ly][ni].MaintGe = Zero]
               ELSE IF gs.Cnt <= 1
               THEN IF si \notin DOMAIN st.NR[sly] THEN Panic(st)
                    ELSE [st EXCEPT !.PN[ly][ni].Maint =
                              RMul(Maint[ly].MaintGain, st.NR[sly][si])]
               ELSE st
    IN  IF st1.err = "panic" THEN st1
        ELSE IF Maint[ly].UseDyn
        THEN IF Len(Dyns) > 0 /\ dtyp \notin 0 .. Len(Dyns) - 1 THEN Panic(st1)
             ELSE [st1 EXCEPT !.PN[ly][ni].MaintGe =
                       RMul(st1.PN[ly][ni].Maint, DynsValue(dtyp, gs.Cnt - 1))]
        ELSE [st1 EXCEPT !.PN[ly][ni].MaintGe = st1.PN[ly][ni].Maint]

RECURSIVE DeepMaintLoop(_, _, _, _, _)
DeepMaintLoop(ly, sly, dtyp, ni, st) ==
    IF ni >= NUnits \/ st.err = "panic" THEN st
    ELSE DeepMaintLoop(ly, sly, dtyp, ni + 1, DeepMaintUnit(ly, sly, dtyp, ni, st))

\* DeepMaint updates deep maintenance activations
DeepMaint(ly, st) ==
    IF ~Has(Gate[ly].GateQtr, ltime.Quarter) THEN st
    ELSE LET slyi == SuperPFC(ly)
         IN  IF slyi = NIL THEN st
             ELSE IF SYN = 0 \/ YN \div SYN = 0 THEN Panic(st)  \* integer divide by zero
             ELSE LET dper == YN \div SYN
                      dtyp == YN \div dper
                  IN  DeepMaintLoop(ly, slyi, dtyp, 0, st)

\* variant of QuarterFinal: DeepMaint runs before the counter update
QuarterFinalMaintFirst(ly, st) == UpdtGateCnt(ly, DeepMaint(ly, st))

\* QuarterFinal does updating after end of a quarter
QuarterFinal(ly, st) == DeepMaint(ly, UpdtGateCnt(ly, st))

---------------------------------------------------------------------------
(* The parts of the network a specification leaves out are not built.      *)

IdlePFC ==
    /\ Gate = <<>> /\ Maint = <<>> /\ GateStates = <<>>
    /\ PFCNeurs = <<>> /\ Neurons = <<>>

IdleMtx ==
    /\ Mtx = <<>> /\ Thal = <<>> /\ Send = <<>> /\ Prjns = <<>> /\ hist = <<>>

IdlePV ==
    /\ PV = <<>> /\ ModNeurs = <<>>

---------------------------------------------------------------------------
(* Construction and the steps of the PFC layers.                           *)

CntOf(gs) == [ly \in DeepLayers |-> [gi \in PoolIdx |-> gs[ly][gi].Cnt]]

AllLayers == DeepLayers \cup SuperLayers

\* the networks built: complete, or with one of the paired layers left out
Networks == {AllLayers} \cup {AllLayers \ {l} : l \in SuperLayers \cup {MntD}}

\* the configurations built: <<network, OutClearMaint, OutQ1Only>>
Configs == {<<AllLayers, clr, q1>> : clr \in BOOLEAN, q1 \in BOOLEAN} \cup
           {<<n, TRUE, TRUE>> : n \in Networks}

\* parameters after Defaults and the user's parameter sheet
MntParams ==
    LET d == LayerDefaults(ZeroGate, ZeroMaint)
    IN  [Gate |-> d.Gate,
         Maint |-> [d.Maint EXCEPT !.MaxMaint = MaxMaintMnt, !.Clear = One]]

OutParams(clr, q1) ==
    LET d == LayerDefaults([ZeroGate EXCEPT !.OutGate = TRUE], ZeroMaint)
    IN  [Gate |-> [d.Gate EXCEPT !.OutQ1Only = q1],
         Maint |-> [d.Maint EXCEPT !.OutClearMaint = clr]]

InitCommon ==
    /\ ltime = [Quarter |-> Q1, Cycle |-> 0]
    /\ err = "ok"

InitPFC ==
    /\ \E cf \in Configs :
          LET clr == cf[2]
              q1 == cf[3]
          IN
          /\ net = cf[1]
          /\ Gate = [ly \in DeepLayers |->
                        IF ly = MntD THEN MntParams.Gate ELSE OutParams(clr, q1).Gate]
          /\ Maint = [ly \in DeepLayers |->
                        IF ly = MntD THEN MntParams.Maint ELSE OutParams(clr, q1).Maint]
    \* GateLayer.Build / InitActs: every pool idle, no maintenance
    /\ GateStates = [ly \in DeepLayers |->
                        [gi \in PoolIdx |-> [Now |-> FALSE, Act |-> Zero, Cnt |-> -1]]]
    /\ PFCNeurs = [ly \in DeepLayers |->
                      [ni \in 0 .. NUnits - 1 |-> [Maint |-> Zero, MaintGe |-> Zero]]]
    /\ Neurons = [sly \in SuperLayers |-> [si \in 0 .. SNUnits - 1 |-> Zero]]
    /\ last = EnvStep
    /\ dm = <<>>

Init == InitCommon /\ InitPFC /\ IdleMtx /\ IdlePV

ActVals == {Zero, One}

\* the gate-decision source (GPiThal) publishes Now and Act of a pool
SetGate(ly, gi, now, act) ==
    /\ err = "ok"
    /\ ly \in net
    /\ GateStates' = [GateStates EXCEPT ![ly][gi].Now = now, ![ly][gi].Act = act]
    /\ GateStates' # GateStates
    /\ last' = EnvStep
    /\ UNCHANGED <<ltime, err, net, Gate, Maint, PFCNeurs, Neurons, mtxVars, pvVars, dm>>

\* a super layer's unit settles to a new activation (generic ActFmG)
SuperActFmG(sly, si, act) ==
    /\ err = "ok"
    /\ sly \in net
    /\ Neurons' = [Neurons EXCEPT ![sly][si] = act]
    /\ Neurons' # Neurons
    /\ last' = EnvStep
    /\ UNCHANGED <<ltime, err, net, Gate, Maint, GateStates, PFCNeurs, mtxVars, pvVars, dm>>

Commit(op, ly, st) ==
    /\ GateStates' = st.GS
    /\ PFCNeurs' = st.PN
    /\ Neurons' = st.NR
    /\ err' = st.err
    /\ last' = [op |-> op, ly |-> ly, pre |-> CntOf(GateStates),
                decays |-> st.decays, upto |-> st.upto]
    /\ UNCHANGED <<ltime, net, Gate, Maint, mtxVars, pvVars, dm>>

WithinCaps(st) ==
    \A ly \in DeepLayers : \A gi \in PoolIdx :
        st.GS[ly][gi].Cnt \in -IdleCap .. CntCap

\* PFCDeepLayer.ActFmG: GateLayer.ActFmG, then Gating
ActFmG(ly) ==
    /\ err = "ok"
    /\ ly \in net
    /\ Commit("Gating", ly, Gating(ly, CurSt))

\* PFCDeepLayer.QuarterFinal
QuarterFinalStep(ly) ==
    /\ err = "ok"
    /\ ly \in net
    /\ WithinCaps(QuarterFinal(ly, CurSt))
    /\ Commit("QuarterFinal", ly, QuarterFinal(ly, CurSt))

NextPFC ==
    \/ \E ly \in DeepLayers, gi \in PoolIdx, now \in BOOLEAN, act \in ActVals :
          SetGate(ly, gi, now, act)
    \/ \E si \in 0 .. SNUnits - 1, act \in ActVals :
          SuperActFmG(SubSeq(MntD, 1, Len(MntD) - 1), si, act)
    \/ \E ly \in DeepLayers : ActFmG(ly)
    \/ \E ly \in DeepLayers : QuarterFinalStep(ly)
    \/ NextQuarter

Next == NextPFC

Spec == Init /\ [][Next]_vars

---------------------------------------------------------------------------
(* pcore/matrix.go: the Matrix layers (dopamine-modulated learning signal). *)

\* DaReceptors
D1R == "D1R"
D2R == "D2R"

MtxGo == "MtxGo"
MtxNo == "MtxNo"
VThal == "VThal"

\* bounds of the layer-level model
MaxCycle == 2
AlphaMaxCyc == 1

\* MatrixParams.Defaults
MatrixDefaults(mp) ==
    [mp EXCEPT !.ThalLay = IF @ = "" THEN VThal ELSE @,
               !.ThalThr = Rat(1, 4), !.Deriv = TRUE,
               !.BurstGain = One, !.DipGain = One]

ZeroMatrix == [ThalLay |-> "", ThalThr |-> Zero, Deriv |-> FALSE,
               BurstGain |-> Zero, DipGain |-> Zero]

\* LrnFactor returns multiplicative factor for level of msn activation
LrnFactor(mp, act) ==
    IF ~mp.Deriv THEN act
    ELSE RMul(RMul(Rat(2, 1), act), RSub(One, act))

\* variant of the learning dopamine: the D2R reversal comes before the gain
\* is chosen
DALrnReversalFirst(da0, mp, dar) ==
    LET da1 == IF dar = D2R THEN RMul(da0, RNeg(One)) ELSE da0
    IN  IF RLt(Zero, da1) THEN RMul(da1, mp.BurstGain) ELSE RMul(da1, mp.DipGain)

\* the effective learning dopamine of DAActLrn: gains, then D2R reversal
DALrnFmDA(da0, mp, dar) ==
    LET da1 == IF RLt(Zero, da0) THEN RMul(da0, mp.BurstGain)
               ELSE RMul(da0, mp.DipGain)
    IN  IF dar = D2R THEN RMul(da1, RNeg(One)) ELSE da1

\* ThalLayer: the layer named Matrix.ThalLay, or an error
ThalLayer(mp) == [tly |-> mp.ThalLay, err |-> mp.ThalLay \notin net]

\* variant of DAActLrn: ActLrn is set before the integration window is over
DAActLrnNoWindow(m) ==
    LET m1 == [m EXCEPT !.DALrn = DALrnFmDA(m.DA, m.Matrix, m.DaR)]
    IN  IF ThalLayer(m.Matrix).err THEN m1
        ELSE [m1 EXCEPT !.Neurons =
                [ni \in DOMAIN @ |->
                    IF @[ni].Off THEN @[ni]
                    ELSE LET amax == LrnFactor(m.Matrix, m.AlphaMaxs[ni])
                             tact == Thal[@[ni].SubPool - 1]
                         IN  IF RLt(m.Matrix.ThalThr, tact)
                             THEN [@[ni] EXCEPT !.ActLrn = amax]
                             ELSE [@[ni] EXCEPT !.ActLrn = RNeg(amax)]]]

\* DAActLrn sets effective learning dopamine value from given raw DA value,
\* and sets ActLrn based on whether corresponding VThal stripe fired
DAActLrn(m) ==
    LET m1 == [m EXCEPT !.DALrn = DALrnFmDA(m.DA, m.Matrix, m.DaR)]
    IN  IF ltime.Cycle < m.AlphaMaxCyc THEN m1
        ELSE IF ThalLayer(m.Matrix).err THEN m1
        ELSE [m1 EXCEPT !.Neurons =
                [ni \in DOMAIN @ |->
                    IF @[ni].Off THEN @[ni]
                    ELSE LET amax == LrnFactor(m.Matrix, m.AlphaMaxs[ni])
                             tact == Thal[@[ni].SubPool - 1]
                         IN  IF RLt(m.Matrix.ThalThr, tact)
                             THEN [@[ni] EXCEPT !.ActLrn = amax]
                             ELSE [@[ni] EXCEPT !.ActLrn = RNeg(amax)]]]

\* a unit of a Matrix layer after InitActs
MtxUnit(off) == [ActLrn |-> Zero, Off |-> off, SubPool |-> 1]

\* a Matrix layer after Defaults, Build and InitActs
MtxLayer(dar, mp, amaxs, offs) ==
    [DaR |-> dar, Matrix |-> mp, DA |-> Zero, DALrn |-> Zero, ACh |-> Zero,
     AlphaMaxCyc |-> AlphaMaxCyc, AlphaMaxs |-> amaxs,
     Neurons |-> [ni \in DOMAIN amaxs |-> MtxUnit(offs[ni])]]

---------------------------------------------------------------------------
(* pcore/matrix.go: MatrixPrjn, dopamine-modulated, gated trace learning.   *)

CurPrjn == "SendToMtxCur"      \* Trace.CurTrlDA = true
DelPrjn == "SendToMtxDel"      \* Trace.CurTrlDA = false
PrjnNames == {CurPrjn, DelPrjn}

\* sending units by receiving units, fully connected
PrjnShp == <<2, 1>>
NSend == PrjnShp[1]
NRecv == PrjnShp[2]
\* the sending unit that owns synapse k (SConIdxSt[si] <= k < SConIdxSt[si] +
\* SConN[si]) and the receiving unit SConIdx[k] of the synapse
SendOf(k) == k \div NRecv
SConIdx(k) == k % NRecv
SynIdx == 0 .. NSend * NRecv - 1

MaxTrials == 2

\* MatrixTraceParams.Defaults
TraceDefaults(tp) == [tp EXCEPT !.CurTrlDA = TRUE, !.Decay = Rat(2, 1)]

ZeroSyn == [DWt |-> Zero, Norm |-> Zero, Moment |-> Zero]
ZeroTrSyn == [Tr |-> Zero, NTr |-> Zero]

\* the log of a synapse no pass has run on
NoLog == [ran |-> FALSE, tr0 |-> Zero, ntr |-> Zero, drive |-> Zero,
          decayed |-> Zero, achDk |-> Zero, da |-> Zero, daLrn |-> Zero,
          dwt |-> Zero]

\* ClearTrace
ClearTrace(trsyns) == [k \in DOMAIN trsyns |-> ZeroTrSyn]

\* variant of the decay factor: the product is not clamped
AchDkUnclamped(ach, decay) == RMul(ach, decay)

\* achDk := mat32.Min(1, ach*pj.Trace.Decay)
AchDk(ach, decay) == RMin(One, RMul(ach, decay))

\* variant of the synapse update: the trace takes in ntr before it drives
\* the weight change, whatever Trace.CurTrlDA is
DWtSynTraceFirst(pj, da, daLrn, achDk, sn, rn, sy, trsy) ==
    LET tr0 == trsy.Tr
        ntr == RMul(rn.ActLrn, sn.ActLrn)
        tr1 == RAdd(tr0, ntr)
        dwt == IF da # Zero THEN RMul(daLrn, tr1) ELSE Zero
        tr2 == RSub(tr1, RMul(achDk, tr1))
    IN  [trsy |-> [Tr |-> tr2, NTr |-> ntr],
         sy |-> [sy EXCEPT !.Norm = ntr, !.Moment = tr2,
                           !.DWt = RAdd(@, RMul(pj.Learn.Lrate, dwt))],
         log |-> [ran |-> TRUE, tr0 |-> tr0, ntr |-> ntr, drive |-> tr1, decayed |-> tr2,
                  achDk |-> achDk, da |-> da, daLrn |-> daLrn, dwt |-> dwt]]

\* variant of the synapse update: under the delayed policy ntr is added
\* before the decay
DWtSynDecayLast(pj, da, daLrn, achDk, sn, rn, sy, trsy) ==
    LET tr0 == trsy.Tr
        ntr == RMul(rn.ActLrn, sn.ActLrn)
        tr1 == IF pj.Trace.CurTrlDA THEN RAdd(tr0, ntr) ELSE tr0
        dwt == IF da # Zero THEN RMul(daLrn, tr1) ELSE Zero
        trn == RAdd(tr0, ntr)
        tr3 == RSub(trn, RMul(achDk, trn))
    IN  [trsy |-> [Tr |-> tr3, NTr |-> ntr],
         sy |-> [sy EXCEPT !.Norm = ntr, !.Moment = tr3,
                           !.DWt = RAdd(@, RMul(pj.Learn.Lrate, dwt))],
         log |-> [ran |-> TRUE, tr0 |-> tr0, ntr |-> ntr, drive |-> tr1, decayed |-> tr3,
                  achDk |-> achDk, da |-> da, daLrn |-> daLrn, dwt |-> dwt]]

\* variant of DWtSyn: the delta is computed whatever the raw DA is
DWtSynAnyDA(pj, da, daLrn, achDk, sn, rn, sy, trsy) ==
    LET tr0 == trsy.Tr
        ntr == RMul(rn.ActLrn, sn.ActLrn)
        tr1 == IF pj.Trace.CurTrlDA THEN RAdd(tr0, ntr) ELSE tr0
        dwt == RMul(daLrn, tr1)
        tr2 == RSub(tr1, RMul(achDk, tr1))
        tr3 == IF ~pj.Trace.CurTrlDA THEN RAdd(tr2, ntr) ELSE tr2
    IN  [trsy |-> [Tr |-> tr3, NTr |-> ntr],
         sy |-> [sy EXCEPT !.Norm = ntr, !.Moment = tr3,
                           !.DWt = RAdd(@, RMul(pj.Learn.Lrate, dwt))],
         log |-> [ran |-> TRUE, tr0 |-> tr0, ntr |-> ntr, drive |-> tr1, decayed |-> tr2,
                  achDk |-> achDk, da |-> da, daLrn |-> daLrn, dwt |-> dwt]]

\* the body of DWt's inner loop for one synapse.  Learn.Norm.On and
\* Learn.Momentum.On are false (MatrixPrjn.Defaults): norm is 1, and Norm and
\* Moment store NTr and Tr.  log keeps the intermediate values of the pass.
DWtSyn(pj, da, daLrn, achDk, sn, rn, sy, trsy) ==
    LET tr0 == trsy.Tr
        ntr == RMul(rn.ActLrn, sn.ActLrn)
        tr1 == IF pj.Trace.CurTrlDA THEN RAdd(tr0, ntr) ELSE tr0
        dwt == IF da # Zero THEN RMul(daLrn, tr1) ELSE Zero
        tr2 == RSub(tr1, RMul(achDk, tr1))    \* decay trace that drove dwt
        tr3 == IF ~pj.Trace.CurTrlDA THEN RAdd(tr2, ntr) ELSE tr2
    IN  [trsy |-> [Tr |-> tr3, NTr |-> ntr],
         sy |-> [sy EXCEPT !.Norm = ntr, !.Moment = tr3,
                           !.DWt = RAdd(@, RMul(pj.Learn.Lrate, dwt))],
         log |-> [ran |-> TRUE, tr0 |-> tr0, ntr |-> ntr, drive |-> tr1, decayed |-> tr2,
                  achDk |-> achDk, da |-> da, daLrn |-> daLrn, dwt |-> dwt]]

\* variant of DWt: the learning flag is not consulted
DWtAlways(pj) ==
    LET rlay == Mtx[pj.Recv]
        achDk == AchDk(rlay.ACh, pj.Trace.Decay)
        res == [k \in SynIdx |->
                   DWtSyn(pj, rlay.DA, rlay.DALrn, achDk, Send[SendOf(k)],
                          rlay.Neurons[SConIdx(k)], pj.Syns[k], pj.TrSyns[k])]
    IN  [pj |-> [pj EXCEPT !.Syns = [k \in SynIdx |-> res[k].sy],
                           !.TrSyns = [k \in SynIdx |-> res[k].trsy]],
         log |-> [k \in SynIdx |-> res[k].log]]

\* DWt computes the weight change (learning) -- on sending projections.
\* The result holds the projection and the log of the pass.
DWt(pj) ==
    IF ~pj.Learn.Learn THEN [pj |-> pj, log |-> [k \in SynIdx |-> NoLog]]
    ELSE LET rlay == Mtx[pj.Recv]
             da == rlay.DA
             daLrn == rlay.DALrn
             achDk == AchDk(rlay.ACh, pj.Trace.Decay)
             res == [k \in SynIdx |->
                        LET si == SendOf(k)
                            ri == SConIdx(k)
                        IN  DWtSyn(pj, da, daLrn, achDk, Send[si],
                                   rlay.Neurons[ri], pj.Syns[k], pj.TrSyns[k])]
         IN  [pj |-> [pj EXCEPT !.Syns = [k \in SynIdx |-> res[k].sy],
                                !.TrSyns = [k \in SynIdx |-> res[k].trsy]],
              log |-> [k \in SynIdx |-> res[k].log]]

\* a MatrixPrjn after Defaults, Build and InitWts
MatrixPrjn(recv, cur, decay, learn) ==
    [Recv |-> recv,
     Trace |-> [TraceDefaults([CurTrlDA |-> FALSE, Decay |-> Zero])
                   EXCEPT !.CurTrlDA = cur, !.Decay = decay],
     Learn |-> [Learn |-> learn, Lrate |-> Rat(1, 25)],   \* leabra's 0.04
     Syns |-> [k \in SynIdx |-> ZeroSyn],
     TrSyns |-> ClearTrace([k \in SynIdx |-> ZeroTrSyn])]

---------------------------------------------------------------------------
(* The steps of the Matrix layers and projections.                         *)

Arr(sq) == [i \in 0 .. Len(sq) - 1 |-> sq[i + 1]]

MtxStep(op) == [op |-> op, ly |-> <<>>, pre |-> <<>>, decays |-> <<>>, upto |-> 0]

DAVals == {RNeg(Rat(1, 2)), Zero, Rat(1, 2)}
TrialDAVals == {Zero, One}
AChVals == {Zero, Rat(1, 4), One}
ThalVals == {Zero, Rat(1, 4), Rat(1, 2)}
GainVals == {<<One, One>>, <<Rat(2, 1), Rat(1, 2)>>}
DecayVals == {Zero, Rat(2, 1)}

\* the dopamine layer sends DA to ly (DALayer.SetDA)
SetDA(ly, da) ==
    /\ err = "ok"
    /\ ly \in DOMAIN Mtx
    /\ Mtx[ly].DA # da
    /\ Mtx' = [Mtx EXCEPT ![ly].DA = da]
    /\ last' = EnvStep
    /\ UNCHANGED <<ltime, err, net, pfcVars, Thal, Send, Prjns, hist, pvVars, dm>>

\* SetACh
SetACh(ly, ach) ==
    /\ err = "ok"
    /\ ly \in DOMAIN Mtx
    /\ Mtx[ly].ACh # ach
    /\ Mtx' = [Mtx EXCEPT ![ly].ACh = ach]
    /\ last' = EnvStep
    /\ UNCHANGED <<ltime, err, net, pfcVars, Thal, Send, Prjns, hist, pvVars, dm>>

\* the thalamic layer's peak activation of a pool (its own ActFmG)
SetThal(pool, v) ==
    /\ err = "ok"
    /\ pool \in DOMAIN Thal
    /\ Thal[pool] # v
    /\ Thal' = [Thal EXCEPT ![pool] = v]
    /\ last' = EnvStep
    /\ UNCHANGED <<ltime, err, net, pfcVars, Mtx, Send, Prjns, hist, pvVars, dm>>

\* the sending layer's learning activation of a unit (its own ActFmG)
SetSendAct(si, v) ==
    /\ err = "ok"
    /\ si \in DOMAIN Send
    /\ Send[si].ActLrn # v
    /\ Send' = [Send EXCEPT ![si].ActLrn = v]
    /\ last' = EnvStep
    /\ UNCHANGED <<ltime, err, net, pfcVars, Mtx, Thal, Prjns, hist, pvVars, dm>>

\* the next cycle of the trial
NextCycle ==
    /\ err = "ok"
    /\ ltime.Cycle < MaxCycle
    /\ ltime' = [ltime EXCEPT !.Cycle = @ + 1]
    /\ last' = EnvStep
    /\ UNCHANGED <<err, net, pfcVars, mtxVars, pvVars, dm>>

\* ActFmG of Matrix layer ly, which calls DAActLrn
MtxActFmG(ly) ==
    /\ err = "ok"
    /\ ly \in DOMAIN Mtx
    /\ Mtx' = [Mtx EXCEPT ![ly] = DAActLrn(Mtx[ly])]
    /\ hist' = [hist EXCEPT !.daAt[ly] = Mtx[ly].DA]
    /\ last' = [MtxStep("DAActLrn") EXCEPT !.ly = ly]
    /\ UNCHANGED <<ltime, err, net, pfcVars, Thal, Send, Prjns, pvVars, dm>>

\* the network's DWt: every projection computes its weight change
NetDWt ==
    /\ err = "ok"
    /\ hist.trials < MaxTrials
    /\ Prjns' = [pj \in DOMAIN Prjns |-> DWt(Prjns[pj]).pj]
    /\ hist' = [hist EXCEPT !.trials = @ + 1,
                            !.log = [pj \in DOMAIN Prjns |-> DWt(Prjns[pj]).log]]
    /\ last' = MtxStep("DWt")
    /\ UNCHANGED <<ltime, err, net, pfcVars, Mtx, Thal, Send, pvVars, dm>>

\* ---- the Go and NoGo layers with their thalamic layer
InitDA ==
    /\ ltime = [Quarter |-> Q1, Cycle |-> 0]
    /\ err = "ok"
    /\ last = EnvStep
    /\ dm = <<>>
    /\ net \in {{MtxGo, MtxNo, VThal}, {MtxGo, MtxNo}}
    /\ \E g \in GainVals :
         LET mp == [MatrixDefaults(ZeroMatrix)
                       EXCEPT !.BurstGain = g[1], !.DipGain = g[2]]
         IN  Mtx = [ly \in {MtxGo, MtxNo} |->
                      IF ly = MtxGo
                      THEN MtxLayer(D1R, mp, Arr(<<Rat(1, 2)>>), Arr(<<FALSE>>))
                      ELSE MtxLayer(D2R, [mp EXCEPT !.Deriv = FALSE],
                                    Arr(<<Rat(1, 4), Rat(1, 2)>>),
                                    Arr(<<FALSE, TRUE>>))]
    /\ Thal = Arr(<<Zero>>)
    /\ Send = <<>> /\ Prjns = <<>>
    /\ hist = [daAt |-> [ly \in {MtxGo, MtxNo} |-> Zero], trials |-> 0, log |-> <<>>]
    /\ IdlePFC /\ IdlePV

NextDA ==
    \/ \E ly \in {MtxGo, MtxNo}, da \in DAVals : SetDA(ly, da)
    \/ \E v \in ThalVals : SetThal(0, v)
    \/ NextCycle
    \/ \E ly \in {MtxGo, MtxNo} : MtxActFmG(ly)

SpecDA == InitDA /\ [][NextDA]_vars

\* ---- one Go layer receiving two projections from one sending layer, at
\* ---- the end of a trial
InitDWt ==
    /\ ltime = [Quarter |-> Q4, Cycle |-> MaxCycle]
    /\ err = "ok"
    /\ last = EnvStep
    /\ dm = <<>>
    /\ net = {MtxGo, VThal}
    /\ Mtx = [ly \in {MtxGo} |->
                MtxLayer(D1R, MatrixDefaults(ZeroMatrix),
                         Arr(<<Rat(1, 2)>>), Arr(<<FALSE>>))]
    /\ Thal = Arr(<<Rat(1, 2)>>)
    /\ Send = [si \in 0 .. NSend - 1 |-> [ActLrn |-> IF si = 0 THEN One ELSE Zero]]
    /\ \E dk \in DecayVals, lrn \in BOOLEAN :
         Prjns = [pj \in PrjnNames |-> MatrixPrjn(MtxGo, pj = CurPrjn, dk, lrn)]
    /\ hist = [daAt |-> [ly \in {MtxGo} |-> Zero], trials |-> 0,
               log |-> [pj \in PrjnNames |-> [k \in SynIdx |-> NoLog]]]
    /\ IdlePFC /\ IdlePV

NextDWt ==
    \/ \E da \in TrialDAVals : SetDA(MtxGo, da)
    \/ \E ach \in AChVals : SetACh(MtxGo, ach)
    \/ \E v \in {Zero, One} : SetSendAct(NSend - 1, v)
    \/ MtxActFmG(MtxGo)
    \/ NetDWt

SpecDWt == InitDWt /\ [][NextDWt]_vars

---------------------------------------------------------------------------
(* pvlv/pv_layer.go: the primary value layer and its receivers.            *)

PosPV == "PosPV"
PVRecvNames == <<"VSMatrixPosD1", "VSMatrixPosD2">>

\* units of the PV layer
NPVUnits == 2

\* Build
PVBuild(ly) == [ly EXCEPT !.SendPVQuarter = Q4]

\* math32.Max
Max32(a, b) == IF RLt(a, b) THEN b ELSE a

\* variant of the value sent: the activation alone
PVValAct(pnr) == pnr.Act

\* the value SendPVAct copies from a source unit
PVVal(pnr) == Max32(pnr.Act, pnr.Ext)

\* SendPVAct's inner loop on receiver rly from source unit pi on: an index
\* out of rly's range panics, the writes made so far stay
RECURSIVE SendPVUnits(_, _, _)
SendPVUnits(ly, mn, pi) ==
    IF pi \notin DOMAIN ly.Neurons THEN [mn |-> mn, err |-> "ok"]
    ELSE IF pi \notin DOMAIN mn THEN [mn |-> mn, err |-> "panic"]
    ELSE SendPVUnits(ly, [mn EXCEPT ![pi].PVAct = PVVal(ly.Neurons[pi])], pi + 1)

\* SendPVAct: the loop over the receivers from the li-th on
RECURSIVE SendPVAct(_, _, _)
SendPVAct(ly, mns, li) ==
    IF li > Len(ly.PVReceivers) THEN [mns |-> mns, err |-> "ok"]
    ELSE LET nm == ly.PVReceivers[li]
             r == SendPVUnits(ly, mns[nm], 0)
             mns1 == [mns EXCEPT ![nm] = r.mn]
         IN  IF r.err = "panic" THEN [mns |-> mns1, err |-> "panic"]
             ELSE SendPVAct(ly, mns1, li + 1)

\* CyclePost
CyclePost(ly, mns) ==
    IF ltime.Quarter = ly.SendPVQuarter THEN SendPVAct(ly, mns, 1)
    ELSE [mns |-> mns, err |-> "ok"]

PVActVals == {Zero, One}
PVExtVals == {Zero, Rat(1, 2)}
\* the unit counts of the receivers built
RecvSizes == {NPVUnits - 1, NPVUnits, NPVUnits + 1}

\* the PV layer's unit gets its activation and external input
SetPVUnit(pi, act, ext) ==
    /\ err = "ok"
    /\ pi \in DOMAIN PV.Neurons
    /\ PV.Neurons[pi] # [Act |-> act, Ext |-> ext]
    /\ PV' = [PV EXCEPT !.Neurons[pi] = [Act |-> act, Ext |-> ext]]
    /\ last' = EnvStep
    /\ UNCHANGED <<ltime, err, net, pfcVars, mtxVars, ModNeurs, dm>>

\* the PV layer's CyclePost
PVCyclePost ==
    /\ err = "ok"
    /\ LET r == CyclePost(PV, ModNeurs)
       IN  /\ ModNeurs' = r.mns
           /\ err' = r.err
    /\ last' = MtxStep("CyclePost")
    /\ UNCHANGED <<ltime, net, pfcVars, mtxVars, PV, dm>>

InitPV ==
    /\ ltime = [Quarter |-> Q1, Cycle |-> 0]
    /\ err = "ok"
    /\ last = EnvStep
    /\ dm = <<>>
    /\ net = {PosPV} \cup {PVRecvNames[i] : i \in DOMAIN PVRecvNames}
    /\ PV = PVBuild([Neurons |-> [pi \in 0 .. NPVUnits - 1 |->
                                     [Act |-> Zero, Ext |-> Zero]],
                     SendPVQuarter |-> 0,
                     PVReceivers |-> PVRecvNames])
    /\ \E sz \in [{PVRecvNames[i] : i \in DOMAIN PVRecvNames} -> RecvSizes] :
         ModNeurs = [nm \in DOMAIN sz |->
                       [pi \in 0 .. sz[nm] - 1 |-> [PVAct |-> Zero]]]
    /\ IdlePFC /\ IdleMtx

NextPV ==
    \/ \E pi \in 0 .. NPVUnits - 1, act \in PVActVals, ext \in PVExtVals :
          SetPVUnit(pi, act, ext)
    \/ PVCyclePost
    \/ NextQuarter

SpecPV == InitPV /\ [][NextPV]_vars

---------------------------------------------------------------------------
(* agate/neuron.go: DeepMaint's index arithmetic over a deep layer of      *)
(* shape Shp and a super layer of shape SShp, both 4D (pools y, pools x,   *)
(* unit rows, unit columns), with NDyns entries in Dyns and every pool's   *)
(* counter at Cnt.                                                         *)

\* bounds of the shapes
MaxPools == 2
MaxRows == 4
MaxCols == 2
MaxDyns == 2

\* variant of DeepMaintIdx: the deep row is used as the super row
DeepMaintIdxNoWrap(shp, sshp, ni) ==
    LET yN == shp[3]
        xN == shp[4]
        nn == yN * xN
        syN == sshp[3]
        sxN == sshp[4]
        snn == syN * sxN
        ui == ni % nn
        pi == ni \div nn
        uy == ui \div xN
        ux == ui % xN
    IN  [pi |-> pi, uy |-> uy, ux |-> ux, si |-> pi * snn + uy * sxN + ux]

\* the indexes of DeepMaint's loop body for unit ni
DeepMaintIdx(shp, sshp, ni) ==
    LET yN == shp[3]
        xN == shp[4]
        nn == yN * xN
        syN == sshp[3]
        sxN == sshp[4]
        snn == syN * sxN
        ui == ni % nn
        pi == ni \div nn
        uy == ui \div xN
        ux == ui % xN
        sy == uy % syN
    IN  [pi |-> pi, uy |-> uy, ux |-> ux, si |-> pi * snn + sy * sxN + ux]

\* DeepMaint's loop from unit ni on; d is the layer and the units done
RECURSIVE DeepMaintShpLoop(_, _)
DeepMaintShpLoop(d, ni) ==
    IF ni >= d.Shp[1] * d.Shp[2] * d.Shp[3] * d.Shp[4] THEN d
    ELSE LET ix == DeepMaintIdx(d.Shp, d.SShp, ni)
             read == d.Cnt >= 0 /\ d.Cnt <= 1        \* snr := &sly.Neurons[si]
             sn == d.SShp[1] * d.SShp[2] * d.SShp[3] * d.SShp[4]
         IN  IF read /\ ix.si \notin 0 .. sn - 1
             THEN [d EXCEPT !.err = "panic"]        \* index out of range
             ELSE DeepMaintShpLoop(
                     [d EXCEPT !.units = @ @@
                         (ni :> [pi |-> ix.pi, uy |-> ix.uy, ux |-> ix.ux,
                                 read |-> read, si |-> ix.si,
                                 useDyn |-> d.NDyns > 0,  \* Defaults: UseDyn
                                 dyn |-> d.dtyp])],
                     ni + 1)

\* DeepMaint once the quarter test and the super-layer lookup have passed
DeepMaintShp(d) ==
    LET yN == d.Shp[3]
        syN == d.SShp[3]
    IN  IF syN = 0 \/ yN \div syN = 0
        THEN [d EXCEPT !.ran = TRUE, !.err = "panic"]  \* integer divide by zero
        ELSE LET dper == yN \div syN
                 dtyp == yN \div dper
             IN  DeepMaintShpLoop([d EXCEPT !.ran = TRUE, !.dtyp = dtyp], 0)

\* the layer's QuarterFinal calls DeepMaint
DeepMaintCall ==
    /\ err = "ok"
    /\ ~dm.ran
    /\ dm' = DeepMaintShp(dm)
    /\ err' = dm'.err
    /\ last' = [EnvStep EXCEPT !.op = "DeepMaint"]
    /\ UNCHANGED <<ltime, net, pfcVars, mtxVars, pvVars>>

InitShp ==
    /\ ltime = [Quarter |-> Q2, Cycle |-> 0]
    /\ err = "ok"
    /\ last = EnvStep
    /\ net = {MntD, SubSeq(MntD, 1, Len(MntD) - 1)}
    /\ \E np \in 1 .. MaxPools, snp \in 1 .. MaxPools,
          yN \in 1 .. MaxRows, syN \in 1 .. MaxRows,
          xN \in 1 .. MaxCols, sxN \in 1 .. MaxCols,
          nd \in 0 .. MaxDyns, cnt \in {-1, 1, 2} :
          dm = [Shp |-> <<1, np, yN, xN>>, SShp |-> <<1, snp, syN, sxN>>,
                NDyns |-> nd, Cnt |-> cnt, ran |-> FALSE, err |-> "ok",
                dtyp |-> 0, units |-> <<>>]
    /\ IdlePFC /\ IdleMtx /\ IdlePV

SpecShp == InitShp /\ [][DeepMaintCall]_vars

---------------------------------------------------------------------------
(* Vocabulary of the properties of the gating state machine.               *)

CntAt(ly, gi) == GateStates[ly][gi].Cnt
NowAt(ly, gi) == GateStates[ly][gi].Now
ActPos(ly, gi) == RLt(Zero, GateStates[ly][gi].Act)
\* a gate event of the pool: Now is true and Act > 0
GateEvt(ly, gi) == NowAt(ly, gi) /\ ActPos(ly, gi)

\* the step taken is ly's Gating, resp. QuarterFinal (action level)
IsGating(ly) == last'.op = "Gating" /\ last'.ly = ly
IsQuarterFinal(ly) == last'.op = "QuarterFinal" /\ last'.ly = ly
\* ly's Gating ran its loop and the loop got to pool gi
Evaluated(ly, gi) == IsGating(ly) /\ ~GatingSkipped(ly) /\ gi < last'.upto
\* the last step was ly's Gating, resp. QuarterFinal (state level)
WasGating(ly) == last.op = "Gating" /\ last.ly = ly
WasQuarterFinal(ly) == last.op = "QuarterFinal" /\ last.ly = ly

UnitsOf(gi) == {ni \in 0 .. NUnits - 1 : ni \div (YN * XN) = gi}

---------------------------------------------------------------------------
\* C1 (as stated): once Cnt >= MaxMaint, the next evaluated Gating sets
\* Cnt = -1 unless the step has a fresh gate event, also when Now is false.
C1_ForcedClearAnyNow ==
    [][\A ly \in DeepLayers : \A gi \in PoolIdx :
          (/\ Evaluated(ly, gi)
           /\ CntAt(ly, gi) >= Maint[ly].MaxMaint
           /\ ~GateEvt(ly, gi))
          => CntAt(ly, gi)' = -1]_vars

\* C1 (amended): once Cnt >= MaxMaint, an evaluated Gating sets Cnt = -1
\* when the pool's Now is true and Act <= 0, sets Cnt = 0 when Now is true
\* and Act > 0, and leaves Cnt as it is when Now is false; an eligible
\* quarter boundary adds one to a Cnt >= 0, so Cnt runs 0, 1, 2, 3 and goes
\* on above MaxMaint until a Gating step with Now true clears it.
C1_ForcedClearWhenNow ==
    [][\A ly \in DeepLayers : \A gi \in PoolIdx :
          /\ (Evaluated(ly, gi) /\ CntAt(ly, gi) >= Maint[ly].MaxMaint)
             => CntAt(ly, gi)' =
                   (IF ~NowAt(ly, gi) THEN CntAt(ly, gi)
                    ELSE IF ActPos(ly, gi) THEN 0 ELSE -1)
          /\ (/\ IsQuarterFinal(ly)
              /\ Has(Gate[ly].GateQtr, ltime.Quarter)
              /\ CntAt(ly, gi) >= 0)
             => CntAt(ly, gi)' = CntAt(ly, gi) + 1]_vars

\* C1 witness: a maintenance pool that ran past MaxMaint (Cnt = MaxMaint + 1)
\* has just been cleared by a Gating step with Now true and Act <= 0
C1_Witness ==
    \E gi \in PoolIdx :
        /\ WasGating(MntD)
        /\ last.pre[MntD][gi] > Maint[MntD].MaxMaint
        /\ NowAt(MntD, gi) /\ ~ActPos(MntD, gi)
        /\ CntAt(MntD, gi) = -1

---------------------------------------------------------------------------
\* a step that resets the pool's Cnt to 0: the pool's gate event, processed
\* by its layer's Gating
GateEvtStep(ly, gi) == Evaluated(ly, gi) /\ GateEvt(ly, gi)

\* the forced clear of an over-duration pool by its layer's Gating
ForcedClearStep(ly, gi) ==
    Evaluated(ly, gi) /\ NowAt(ly, gi) /\ CntAt(ly, gi) >= Maint[ly].MaxMaint

\* the output layer's Gating clears pool gi of maintenance layer ly
ClearMaintStep(ly, gi) ==
    /\ Evaluated(OutD, gi) /\ GateEvt(OutD, gi)
    /\ Maint[OutD].OutClearMaint
    /\ ly = MaintPFC(OutD)
    /\ CntAt(ly, gi) >= 1

\* C2 (as stated): between two gate events Cnt never decreases while it is
\* >= 0 and never increases while it is < 0.
C2_CntMonotone ==
    [][\A ly \in DeepLayers : \A gi \in PoolIdx :
          ~GateEvtStep(ly, gi)
          => /\ CntAt(ly, gi) >= 0 => CntAt(ly, gi)' >= CntAt(ly, gi)
             /\ CntAt(ly, gi) < 0 => CntAt(ly, gi)' <= CntAt(ly, gi)]_vars

\* C2 (amended): between two gate events a Cnt >= 0 decreases only by being
\* set to -1, by the forced clear of its layer's Gating (Now true and
\* Cnt >= MaxMaint) or by the paired output layer's ClearMaint (Cnt >= 1);
\* a Cnt < 0 never increases.
C2_CntMonotoneButClears ==
    [][\A ly \in DeepLayers : \A gi \in PoolIdx :
          ~GateEvtStep(ly, gi)
          => /\ CntAt(ly, gi) >= 0
                => \/ CntAt(ly, gi)' >= CntAt(ly, gi)
                   \/ /\ CntAt(ly, gi)' = -1
                      /\ ForcedClearStep(ly, gi) \/ ClearMaintStep(ly, gi)
             /\ CntAt(ly, gi) < 0 => CntAt(ly, gi)' <= CntAt(ly, gi)]_vars

\* C2 witness: an idle pool counted further down at a quarter boundary, in a
\* run where the other layer's pool is maintaining
C2_Witness ==
    \E gi \in PoolIdx :
        /\ WasQuarterFinal(OutD)
        /\ last.pre[OutD][gi] = -1
        /\ CntAt(OutD, gi) = -2
        /\ CntAt(MntD, gi) >= 2

---------------------------------------------------------------------------
\* the output layer's gate event on pool gi meets an established maintenance
\* of pool gi in the paired maintenance layer, with OutClearMaint enabled
OutGateOnMaint(gi) ==
    /\ Evaluated(OutD, gi) /\ GateEvt(OutD, gi)
    /\ Gate[OutD].OutGate /\ Maint[OutD].OutClearMaint
    /\ MaintPFC(OutD) = MntD
    /\ CntAt(MntD, gi) >= 1

\* C3 (as stated): in that same Gating step the maintenance pool's Cnt
\* becomes -1 and the Maint of every unit of the pool becomes 0.
C3_ClearZeroesMaint ==
    [][\A gi \in PoolIdx :
          OutGateOnMaint(gi)
          => /\ CntAt(MntD, gi)' = -1
             /\ \A ni \in UnitsOf(gi) : PFCNeurs'[MntD][ni].Maint = Zero]_vars

\* C3 (amended): in that same Gating step the maintenance pool's Cnt becomes
\* -1 and the step leaves Maint and MaintGe of the maintenance layer as they
\* were; they are zeroed by the maintenance layer's next DeepMaint on a
\* quarter of its GateQtr that finds the pool idle (super layer present).
C3_ClearLeavesMaint ==
    [][\A gi \in PoolIdx :
          /\ OutGateOnMaint(gi)
             => /\ CntAt(MntD, gi)' = -1
                /\ PFCNeurs'[MntD] = PFCNeurs[MntD]
          /\ (/\ IsQuarterFinal(MntD)
              /\ Has(Gate[MntD].GateQtr, ltime.Quarter)
              /\ SuperPFC(MntD) # NIL
              /\ CntAt(MntD, gi) < 0)
             => \A ni \in UnitsOf(gi) :
                   PFCNeurs'[MntD][ni] = [Maint |-> Zero, MaintGe |-> Zero]]_vars

\* C3 witness: the output gate has just cleared a maintaining pool, whose
\* units still hold their nonzero Maint
C3_Witness ==
    \E gi \in PoolIdx :
        /\ WasGating(OutD)
        /\ last.pre[MntD][gi] >= 1
        /\ CntAt(MntD, gi) = -1
        /\ \E ni \in UnitsOf(gi) : PFCNeurs[MntD][ni].Maint # Zero

---------------------------------------------------------------------------
\* C4: with a paired layer absent from the network, no operation ends in a
\* fatal error (the dependent effect is only skipped).
C4_SoftMiss == (net # AllLayers) => err = "ok"

---------------------------------------------------------------------------
\* C5: an evaluated Gating step in which the pool has Now true and Act > 0
\* ends with Cnt = 0 whatever Cnt was (idle, maintaining or expired); with
\* Now true and Act <= 0 the step does not set Cnt to 0 (Cnt stays, or is
\* force-cleared to -1).  (MaxMaint >= 1 in every configuration.)
C5_GateEventOverride ==
    [][\A ly \in DeepLayers : \A gi \in PoolIdx :
          (Evaluated(ly, gi) /\ NowAt(ly, gi))
          => IF ActPos(ly, gi)
             THEN CntAt(ly, gi)' = 0
             ELSE /\ CntAt(ly, gi)' \in {CntAt(ly, gi), -1}
                  /\ CntAt(ly, gi)' = 0 => CntAt(ly, gi) = 0]_vars

\* C5 witness: an expired pool (Cnt >= MaxMaint) has just been re-gated
C5_Witness ==
    \E ly \in DeepLayers : \E gi \in PoolIdx :
        /\ WasGating(ly)
        /\ last.pre[ly][gi] >= Maint[ly].MaxMaint
        /\ GateEvt(ly, gi)
        /\ CntAt(ly, gi) = 0

---------------------------------------------------------------------------
(* Vocabulary of the properties of the trace learning rule.                *)

\* the step taken is the network's DWt (action level), resp. was (state level)
IsDWt == last'.op = "DWt"
WasDWt == last.op = "DWt"
Learns(pj) == Prjns[pj].Learn.Learn
\* what the pass adds to the synapse's DWt
DWtAdded(pj, k) == RSub(Prjns'[pj].Syns[k].DWt, Prjns[pj].Syns[k].DWt)
TrOf(pj, k) == Prjns[pj].TrSyns[k].Tr
\* the current trial's co-activity of synapse k of projection pj
NTrOf(pj, k) ==
    RMul(Mtx[Prjns[pj].Recv].Neurons[SConIdx(k)].ActLrn, Send[SendOf(k)].ActLrn)
RecvDA(pj) == Mtx[Prjns[pj].Recv].DA
RecvDALrn(pj) == Mtx[Prjns[pj].Recv].DALrn
RecvACh(pj) == Mtx[Prjns[pj].Recv].ACh
\* the mathematical decay factor min(1, ACh * Decay) of a pass on pj
DecayFactor(pj) ==
    LET x == RMul(RecvACh(pj), Prjns[pj].Trace.Decay)
    IN  IF RLt(One, x) THEN One ELSE x

---------------------------------------------------------------------------
\* C6: with CurTrlDA false a DWt pass adds Lrate * DALrn * Tr to a synapse's
\* DWt (nothing when DA = 0), with Tr the trace stored before the pass: two
\* synapses with the same stored trace get the same delta whatever their
\* current ActLrn, and the pass's ntr only enters the trace left for the next
\* pass (Tr' = Tr - achDk * Tr + ntr).  With CurTrlDA true the delta is
\* Lrate * DALrn * (Tr + ntr).
C6_DelayedDASeparation ==
    [][IsDWt =>
        \A k \in SynIdx :
          /\ Learns(DelPrjn) =>
              /\ DWtAdded(DelPrjn, k) =
                   RMul(Prjns[DelPrjn].Learn.Lrate,
                        IF RecvDA(DelPrjn) # Zero
                        THEN RMul(RecvDALrn(DelPrjn), TrOf(DelPrjn, k))
                        ELSE Zero)
              /\ \A k2 \in SynIdx :
                    TrOf(DelPrjn, k2) = TrOf(DelPrjn, k)
                    => DWtAdded(DelPrjn, k2) = DWtAdded(DelPrjn, k)
              /\ TrOf(DelPrjn, k)' =
                   RAdd(RSub(TrOf(DelPrjn, k),
                             RMul(DecayFactor(DelPrjn), TrOf(DelPrjn, k))),
                        NTrOf(DelPrjn, k))
          /\ Learns(CurPrjn) =>
                DWtAdded(CurPrjn, k) =
                   RMul(Prjns[CurPrjn].Learn.Lrate,
                        IF RecvDA(CurPrjn) # Zero
                        THEN RMul(RecvDALrn(CurPrjn),
                                  RAdd(TrOf(CurPrjn, k), NTrOf(CurPrjn, k)))
                        ELSE Zero)]_vars

\* C6 witness: a pass with DA # 0 has run on two synapses that held the same
\* nonzero trace and differ in the current trial's ntr: the delayed
\* projection's deltas are equal and nonzero, the current-trial projection's
\* deltas differ
C6_Witness ==
    /\ WasDWt
    /\ \E k1, k2 \in SynIdx :
        LET d1 == hist.log[DelPrjn][k1]
            d2 == hist.log[DelPrjn][k2]
            c1 == hist.log[CurPrjn][k1]
            c2 == hist.log[CurPrjn][k2]
        IN  /\ d1.ran /\ d2.ran /\ c1.ran /\ c2.ran
            /\ d1.da # Zero
            /\ d1.tr0 = d2.tr0 /\ d1.tr0 # Zero
            /\ d1.ntr # Zero /\ d2.ntr = Zero
            /\ d1.dwt = d2.dwt /\ d1.dwt # Zero
            /\ c1.tr0 = c2.tr0 /\ c1.dwt # c2.dwt

---------------------------------------------------------------------------
\* the case of C7: both projections learn, synapse k holds the same trace
\* under both policies, and the trial has nonzero ntr and nonzero DA
EqualTraceTrial(k) ==
    /\ IsDWt
    /\ Learns(CurPrjn) /\ Learns(DelPrjn)
    /\ TrOf(CurPrjn, k) = TrOf(DelPrjn, k)
    /\ NTrOf(CurPrjn, k) # Zero
    /\ RecvDA(CurPrjn) # Zero

\* C7 (as stated): from equal traces, one pass with nonzero ntr and nonzero
\* DA leaves different Tr values under the two policies, for every ACh level
\* and decay gain.
C7_PoliciesDiffer ==
    [][\A k \in SynIdx :
          EqualTraceTrial(k) => TrOf(CurPrjn, k)' # TrOf(DelPrjn, k)']_vars

\* C7 (amended): from equal traces, one pass with nonzero ntr leaves traces
\* that differ by min(1, ACh * Decay) * ntr (the delayed one being the
\* current-trial one plus that amount): they differ when ACh * Decay > 0 and
\* are equal when ACh * Decay = 0.
C7_PoliciesDifferByDecay ==
    [][\A k \in SynIdx :
          EqualTraceTrial(k)
          => /\ RSub(TrOf(DelPrjn, k)', TrOf(CurPrjn, k)') =
                  RMul(DecayFactor(CurPrjn), NTrOf(CurPrjn, k))
             /\ (TrOf(CurPrjn, k)' # TrOf(DelPrjn, k)')
                  <=> RLt(Zero, RMul(RecvACh(CurPrjn), Prjns[CurPrjn].Trace.Decay))
             /\ RecvACh(CurPrjn) = Zero
                  => TrOf(CurPrjn, k)' = TrOf(DelPrjn, k)']_vars

\* C7 witness: a pass with nonzero ntr and DA and a partial decay
\* (0 < achDk < 1) has run from equal nonzero traces and left different ones
C7_Witness ==
    /\ WasDWt
    /\ \E k \in SynIdx :
        LET c == hist.log[CurPrjn][k]
            d == hist.log[DelPrjn][k]
        IN  /\ c.ran /\ d.ran
            /\ c.tr0 = d.tr0 /\ c.tr0 # Zero
            /\ c.ntr # Zero /\ c.da # Zero
            /\ RLt(Zero, c.achDk) /\ RLt(c.achDk, One)
            /\ TrOf(CurPrjn, k) # TrOf(DelPrjn, k)

---------------------------------------------------------------------------
\* C8: with ACh >= 0 and Decay >= 0 the decay factor DWt uses is
\* min(1, ACh * Decay) and lies in [0, 1]; the decay step tr -= achDk * tr
\* never increases the magnitude of the trace nor changes its sign, and
\* leaves exactly 0 when ACh * Decay >= 1.
C8_TraceDecayBound ==
    [][IsDWt =>
        \A pj \in PrjnNames : \A k \in SynIdx :
          (/\ Learns(pj)
           /\ RLe(Zero, RecvACh(pj))
           /\ RLe(Zero, Prjns[pj].Trace.Decay))
          => LET lg == hist'.log[pj][k]
             IN  /\ lg.achDk = DecayFactor(pj)
                 /\ RLe(Zero, lg.achDk) /\ RLe(lg.achDk, One)
                 /\ lg.decayed = RSub(lg.drive, RMul(lg.achDk, lg.drive))
                 /\ RLe(RAbs(lg.decayed), RAbs(lg.drive))
                 /\ RLe(Zero, RMul(lg.decayed, lg.drive))
                 /\ RLe(One, RMul(RecvACh(pj), Prjns[pj].Trace.Decay))
                      => lg.decayed = Zero]_vars

\* C8 witness: a pass with ACh * Decay = 2 has decayed a nonzero trace to 0
\* with the factor clamped to 1
C8_Witness ==
    /\ WasDWt
    /\ \E pj \in PrjnNames : \E k \in SynIdx :
        /\ hist.log[pj][k].ran
        /\ RMul(RecvACh(pj), Prjns[pj].Trace.Decay) = Rat(2, 1)
        /\ hist.log[pj][k].achDk = One
        /\ hist.log[pj][k].drive # Zero
        /\ hist.log[pj][k].decayed = Zero

---------------------------------------------------------------------------
---------------------------------------------------------------------------
(* Vocabulary of the properties of the broadcast.                          *)

IsCyclePost == last'.op = "CyclePost"
PVRecvs == {PV.PVReceivers[i] : i \in DOMAIN PV.PVReceivers}
\* every receiver has the source's units
SameShape == \A nm \in PVRecvs : DOMAIN ModNeurs[nm] = DOMAIN PV.Neurons

\* C10: (source and receivers of the same shape) after CyclePost in a cycle
\* whose quarter is SendPVQuarter every unit i of every registered receiver
\* has PVAct = max(Act, Ext) of source unit i; in a cycle of any other
\* quarter CyclePost changes no receiver's PVAct.  SendPVQuarter is the
\* fourth quarter.
C10_BroadcastAtSendQuarter ==
    [][IsCyclePost =>
        /\ PV.SendPVQuarter = Q4
        /\ (ltime.Quarter = PV.SendPVQuarter /\ SameShape)
           => /\ err' = "ok"
              /\ \A nm \in PVRecvs : \A pi \in DOMAIN ModNeurs[nm] :
                    ModNeurs'[nm][pi].PVAct =
                       (IF RLt(PV.Neurons[pi].Act, PV.Neurons[pi].Ext)
                        THEN PV.Neurons[pi].Ext ELSE PV.Neurons[pi].Act)
        /\ ltime.Quarter # PV.SendPVQuarter
           => /\ ModNeurs' = ModNeurs
              /\ err' = "ok"]_vars

\* C10 witness: CyclePost has run in the send quarter and the receivers
\* hold an external input above the activation for one unit and an
\* activation above the external input for another
C10_Witness ==
    /\ last.op = "CyclePost"
    /\ ltime.Quarter = PV.SendPVQuarter
    /\ SameShape
    /\ \E p1, p2 \in DOMAIN PV.Neurons :
        /\ RLt(PV.Neurons[p1].Act, PV.Neurons[p1].Ext)
        /\ RLt(PV.Neurons[p2].Ext, PV.Neurons[p2].Act)
        /\ \A nm \in PVRecvs :
            /\ ModNeurs[nm][p1].PVAct = PV.Neurons[p1].Ext
            /\ ModNeurs[nm][p2].PVAct = PV.Neurons[p2].Act

---------------------------------------------------------------------------
\* C11: with a receiver whose unit count differs from the source's (smaller
\* or larger), SendPVAct raises no error: the run never ends in a panic.
C11_MismatchNoError == (~SameShape) => err = "ok"

---------------------------------------------------------------------------
\* the step taken is an operation of deep layer ly
IsOpOf(ly) == IsGating(ly) \/ IsQuarterFinal(ly)

\* C12 (as stated): an operation of one layer writes only that layer's own
\* state: the gate states and PFC unit values of the other deep layer and
\* the activations of the super layers are the same after the step.
C12_SingleWriter ==
    [][\A ly \in DeepLayers :
          IsOpOf(ly)
          => /\ \A l2 \in DeepLayers \ {ly} :
                   /\ GateStates'[l2] = GateStates[l2]
                   /\ PFCNeurs'[l2] = PFCNeurs[l2]
             /\ Neurons' = Neurons]_vars

\* C12 (amended): QuarterFinal of a layer writes only that layer's own Cnt,
\* Maint and MaintGe.  Gating of a layer writes no PFC unit values, and
\* writes state of other layers in two ways only: a gate event on a
\* maintenance-gate layer decays the pool of its super layer, and a gate
\* event on an output-gate layer with OutClearMaint sets the Cnt of the
\* paired maintenance pool (when >= 1) to -1 and decays that pool of the
\* maintenance layer's super layer.
C12_CrossLayerWrites ==
    [][\A ly \in DeepLayers :
          /\ IsQuarterFinal(ly)
             => /\ \A l2 \in DeepLayers \ {ly} :
                      /\ GateStates'[l2] = GateStates[l2]
                      /\ PFCNeurs'[l2] = PFCNeurs[l2]
                /\ Neurons' = Neurons
                /\ \A gi \in PoolIdx :
                      /\ NowAt(ly, gi)' = NowAt(ly, gi)
                      /\ GateStates'[ly][gi].Act = GateStates[ly][gi].Act
          /\ IsGating(ly)
             => /\ PFCNeurs' = PFCNeurs
                /\ \A l2 \in DeepLayers \ {ly} : \A gi \in PoolIdx :
                      GateStates'[l2][gi] =
                         IF ly = OutD /\ Gate[ly].OutGate /\ ClearMaintStep(l2, gi)
                         THEN [GateStates[l2][gi] EXCEPT !.Cnt = -1]
                         ELSE GateStates[l2][gi]
                /\ \A sl \in SuperLayers :
                      Neurons'[sl] # Neurons[sl]
                      => \E gi \in PoolIdx :
                            \/ /\ ~Gate[ly].OutGate
                               /\ sl = SuperPFC(ly)
                               /\ GateEvtStep(ly, gi)
                            \/ /\ ly = OutD /\ Gate[ly].OutGate
                               /\ ClearMaintStep(MntD, gi)
                               /\ sl = SuperPFC(MntD)]_vars

\* C12 witness: the output layer's Gating has just written the maintenance
\* layer's counter and decayed the maintenance layer's super pool
C12_Witness ==
    \E gi \in PoolIdx :
        /\ WasGating(OutD)
        /\ last.pre[MntD][gi] >= 1
        /\ CntAt(MntD, gi) = -1
        /\ last.decays = <<<<SuperPFC(MntD), gi, Maint[MntD].Clear>>>>
        /\ Maint[MntD].Clear # Zero

---------------------------------------------------------------------------
\* C13: with Learn.Learn off DWt is a no-op: Tr, NTr, DWt, Norm and Moment
\* of every synapse of the projection are unchanged, whatever DA, ACh and
\* the unit activities are.
C13_NoLearnNoChange ==
    [][\A pj \in PrjnNames :
          (IsDWt /\ ~Learns(pj))
          => /\ Prjns'[pj].Syns = Prjns[pj].Syns
             /\ Prjns'[pj].TrSyns = Prjns[pj].TrSyns]_vars

\* C13 witness: a pass has run on a projection that does not learn, with
\* nonzero DA, DALrn, ACh and co-activity, and its synapses are as built
C13_Witness ==
    /\ WasDWt
    /\ \E pj \in PrjnNames : \E k \in SynIdx :
        /\ ~Learns(pj)
        /\ RecvDA(pj) # Zero /\ RecvDALrn(pj) # Zero /\ RecvACh(pj) # Zero
        /\ NTrOf(pj, k) # Zero
        /\ Prjns[pj].Syns[k] = ZeroSyn
        /\ Prjns[pj].TrSyns[k] = ZeroTrSyn

---------------------------------------------------------------------------
\* vocabulary of the DAActLrn properties
IsDAActLrn(ly) == last'.op = "DAActLrn" /\ last'.ly = ly
\* the contrastive signal of unit ni of Matrix layer m: +LrnFactor(AlphaMax)
\* when the thalamic peak of its pool is strictly above ThalThr, else minus
Contrast(m, ni) ==
    LET amax == LrnFactor(m.Matrix, m.AlphaMaxs[ni])
    IN  IF RLt(m.Matrix.ThalThr, Thal[m.Neurons[ni].SubPool - 1])
        THEN amax ELSE RNeg(amax)

\* C14 as stated: a DAActLrn call before AlphaMaxCyc leaves every ActLrn
\* unchanged while DALrn is recomputed; from AlphaMaxCyc on every non-off
\* unit's ActLrn is the contrastive signal.
C14_ContrastFromWindow ==
    [][\A ly \in DOMAIN Mtx :
          IsDAActLrn(ly)
          => /\ Mtx'[ly].DALrn = DALrnFmDA(Mtx[ly].DA, Mtx[ly].Matrix, Mtx[ly].DaR)
             /\ \A ni \in DOMAIN Mtx[ly].Neurons :
                  IF ltime.Cycle < Mtx[ly].AlphaMaxCyc
                  THEN Mtx'[ly].Neurons[ni].ActLrn = Mtx[ly].Neurons[ni].ActLrn
                  ELSE ~Mtx[ly].Neurons[ni].Off
                       => Mtx'[ly].Neurons[ni].ActLrn = Contrast(Mtx[ly], ni)]_vars

\* C14 amended: a DAActLrn call before AlphaMaxCyc leaves every ActLrn
\* unchanged while DALrn is recomputed; from AlphaMaxCyc on every non-off
\* unit's ActLrn is the contrastive signal when the layer named by ThalLay
\* is in the network, and is left unchanged, like that of an off unit, when
\* it is not.
C14_ContrastWhenThalResolves ==
    [][\A ly \in DOMAIN Mtx :
          IsDAActLrn(ly)
          => /\ Mtx'[ly].DALrn = DALrnFmDA(Mtx[ly].DA, Mtx[ly].Matrix, Mtx[ly].DaR)
             /\ \A ni \in DOMAIN Mtx[ly].Neurons :
                  IF /\ ltime.Cycle >= Mtx[ly].AlphaMaxCyc
                     /\ Mtx[ly].Matrix.ThalLay \in net
                     /\ ~Mtx[ly].Neurons[ni].Off
                  THEN Mtx'[ly].Neurons[ni].ActLrn = Contrast(Mtx[ly], ni)
                  ELSE Mtx'[ly].Neurons[ni].ActLrn = Mtx[ly].Neurons[ni].ActLrn]_vars

\* C14 witness: after the window, with the thalamic layer present and its
\* peak exactly ThalThr (not strictly above), a unit has just received the
\* negative signal, and DALrn was recomputed
C14_Witness ==
    /\ last.op = "DAActLrn" /\ last.ly = MtxGo
    /\ ltime.Cycle >= Mtx[MtxGo].AlphaMaxCyc
    /\ Mtx[MtxGo].Matrix.ThalLay \in net
    /\ Thal[0] = Mtx[MtxGo].Matrix.ThalThr
    /\ Mtx[MtxGo].Neurons[0].ActLrn = RNeg(LrnFactor(Mtx[MtxGo].Matrix, Mtx[MtxGo].AlphaMaxs[0]))
    /\ Mtx[MtxGo].Neurons[0].ActLrn # Zero
    /\ Mtx[MtxGo].DALrn # Zero

---------------------------------------------------------------------------
\* vocabulary of the DeepMaint properties
\* ly's QuarterFinal runs in a quarter of GateQtr with the super layer there,
\* so that DeepMaint's loop runs (action level)
IsDeepMaint(ly) ==
    /\ IsQuarterFinal(ly)
    /\ Has(Gate[ly].GateQtr, ltime.Quarter)
    /\ SuperPFC(ly) # NIL
\* the super-layer unit that deep unit ni copies
SuperUnit(ni) ==
    LET ui == ni % (YN * XN)
    IN  (ni \div (YN * XN)) * (SYN * SXN) + ((ui \div XN) % SYN) * SXN + (ui % XN)

\* C15: after DeepMaint has run (quarter in GateQtr, super layer present),
\* for every unit, with Cnt the counter DeepMaint read: Cnt < 0 gives
\* Maint = 0 and MaintGe = 0; 0 <= Cnt <= 1 gives Maint = MaintGain * the
\* activation of the corresponding super unit; Cnt >= 2 leaves Maint
\* unchanged; and with UseDyn off MaintGe = Maint in every case.
C15_DeepMaintPost ==
    [][\A ly \in DeepLayers :
          IsDeepMaint(ly)
          => \A gi \in PoolIdx : \A ni \in UnitsOf(gi) :
               LET cnt == GateStates'[ly][gi].Cnt
                   pnr == PFCNeurs'[ly][ni]
               IN  /\ cnt < 0 => pnr.Maint = Zero /\ pnr.MaintGe = Zero
                   /\ cnt \in 0 .. 1
                      => pnr.Maint = RMul(Maint[ly].MaintGain,
                                          Neurons[SuperPFC(ly)][SuperUnit(ni)])
                   /\ cnt >= 2 => pnr.Maint = PFCNeurs[ly][ni].Maint
                   /\ ~Maint[ly].UseDyn => pnr.MaintGe = pnr.Maint]_vars

\* C15 witness: DeepMaint has just run on a pool with Cnt >= 2 whose super
\* unit is now silent, and the unit still carries the earlier copy
C15_Witness ==
    /\ WasQuarterFinal(MntD)
    /\ Has(Gate[MntD].GateQtr, ltime.Quarter)
    /\ SuperPFC(MntD) # NIL
    /\ \E gi \in PoolIdx : \E ni \in UnitsOf(gi) :
        /\ CntAt(MntD, gi) >= 2
        /\ Neurons[SuperPFC(MntD)][SuperUnit(ni)] = Zero
        /\ PFCNeurs[MntD][ni].Maint # Zero
        /\ PFCNeurs[MntD][ni].MaintGe = PFCNeurs[MntD][ni].Maint

---------------------------------------------------------------------------
\* the copy DeepMaint takes for unit ni of ly from the super layer as it is
\* before the step
Snapshot(ly, ni) ==
    RMul(Maint[ly].MaintGain, Neurons[SuperPFC(ly)][SuperUnit(ni)])

\* C16 as stated: Maint is set once per gate event.  On a QuarterFinal in a
\* GateQtr quarter DeepMaint never reads Cnt = 0; on the first such boundary
\* after a gate event (Cnt = 0 before it) Maint becomes the copy of the
\* super unit; on every later one (Cnt >= 1 before it, not cleared since)
\* Maint keeps its value; and no other step changes Maint.
C16_MaintSetOnce ==
    [][\A ly \in DeepLayers : \A gi \in PoolIdx : \A ni \in UnitsOf(gi) :
          /\ (IsQuarterFinal(ly) /\ Has(Gate[ly].GateQtr, ltime.Quarter))
             => /\ GateStates'[ly][gi].Cnt # 0
                /\ CntAt(ly, gi) = 0
                   => /\ GateStates'[ly][gi].Cnt = 1
                      /\ SuperPFC(ly) # NIL
                      /\ PFCNeurs'[ly][ni].Maint = Snapshot(ly, ni)
                /\ CntAt(ly, gi) >= 1
                   => PFCNeurs'[ly][ni].Maint = PFCNeurs[ly][ni].Maint
          /\ PFCNeurs'[ly][ni].Maint # PFCNeurs[ly][ni].Maint
             => /\ IsQuarterFinal(ly) /\ Has(Gate[ly].GateQtr, ltime.Quarter)
                /\ CntAt(ly, gi) <= 0]_vars

\* C16 amended: the same, the copy being taken only when the layer's super
\* layer is in the network; without it Maint is never set.
C16_MaintSetOnceWithSuper ==
    [][\A ly \in DeepLayers : \A gi \in PoolIdx : \A ni \in UnitsOf(gi) :
          /\ (IsQuarterFinal(ly) /\ Has(Gate[ly].GateQtr, ltime.Quarter))
             => /\ GateStates'[ly][gi].Cnt # 0
                /\ CntAt(ly, gi) = 0
                   => /\ GateStates'[ly][gi].Cnt = 1
                      /\ IF SuperPFC(ly) # NIL
                         THEN PFCNeurs'[ly][ni].Maint = Snapshot(ly, ni)
                         ELSE PFCNeurs'[ly][ni].Maint = PFCNeurs[ly][ni].Maint
                /\ CntAt(ly, gi) >= 1
                   => PFCNeurs'[ly][ni].Maint = PFCNeurs[ly][ni].Maint
          /\ PFCNeurs'[ly][ni].Maint # PFCNeurs[ly][ni].Maint
             => /\ IsDeepMaint(ly)
                /\ CntAt(ly, gi) <= 0]_vars

\* C16 witness: the third eligible boundary after a gate event has just
\* passed, the super unit has gone silent since the copy was taken, and
\* Maint still holds the copy
C16_Witness ==
    /\ WasQuarterFinal(MntD)
    /\ Has(Gate[MntD].GateQtr, ltime.Quarter)
    /\ \E gi \in PoolIdx : \E ni \in UnitsOf(gi) :
        /\ last.pre[MntD][gi] = 2
        /\ CntAt(MntD, gi) = 3
        /\ Neurons[SuperPFC(MntD)][SuperUnit(ni)] = Zero
        /\ PFCNeurs[MntD][ni].Maint = RMul(Maint[MntD].MaintGain, One)

---------------------------------------------------------------------------
\* vocabulary of the shape properties
NUnitsOf(shp) == shp[1] * shp[2] * shp[3] * shp[4]
\* the structural contract: same pools, same columns, and the deep rows a
\* positive multiple of the super rows
RowsMultiple ==
    /\ dm.Shp[1] * dm.Shp[2] = dm.SShp[1] * dm.SShp[2]
    /\ dm.Shp[4] = dm.SShp[4]
    /\ dm.SShp[3] > 0 /\ dm.Shp[3] >= dm.SShp[3]
    /\ dm.Shp[3] % dm.SShp[3] = 0

\* C17: with UseDyn on and the deep layer having len(Dyns) times the super
\* layer's rows, the dynamics index DeepMaint passes to Dyns.Value for the
\* unit in row uy is uy / superRows, a valid index of Dyns.
C17_DynOfOwnRow ==
    (dm.ran /\ RowsMultiple /\ dm.NDyns > 0
        /\ dm.Shp[3] = dm.NDyns * dm.SShp[3])
    => \A ni \in DOMAIN dm.units :
         /\ dm.units[ni].useDyn
         /\ dm.units[ni].dyn = dm.units[ni].uy \div dm.SShp[3]
         /\ dm.units[ni].dyn \in 0 .. dm.NDyns - 1

\* C18: under the structural contract DeepMaint does not divide by zero,
\* and for the deep unit at (pool pi, row uy, column ux) the super index is
\* pi*superUnitsPerPool + (uy mod superRows)*superCols + ux, inside the
\* super layer's unit range and in pool pi.
C18_SuperIndex ==
    (dm.ran /\ RowsMultiple)
    => /\ err = "ok"
       /\ DOMAIN dm.units = 0 .. NUnitsOf(dm.Shp) - 1
       /\ \A ni \in DOMAIN dm.units :
            LET u == dm.units[ni]
                snn == dm.SShp[3] * dm.SShp[4]
            IN  /\ ni = u.pi * (dm.Shp[3] * dm.Shp[4]) + u.uy * dm.Shp[4] + u.ux
                /\ u.uy \in 0 .. dm.Shp[3] - 1 /\ u.ux \in 0 .. dm.Shp[4] - 1
                /\ u.si = u.pi * snn + (u.uy % dm.SShp[3]) * dm.SShp[4] + u.ux
                /\ u.si \in 0 .. NUnitsOf(dm.SShp) - 1
                /\ u.si \div snn = u.pi

\* C18 witness: the copy has been read for a unit of the second pool in a
\* row beyond the super layer's rows, of a deep layer with twice two rows
C18_Witness ==
    /\ dm.ran /\ RowsMultiple /\ err = "ok"
    /\ dm.SShp[3] = 2 /\ dm.Shp[3] = 4 /\ dm.Shp[4] = 2
    /\ \E ni \in DOMAIN dm.units :
        /\ dm.units[ni].read
        /\ dm.units[ni].pi = 1
        /\ dm.units[ni].uy = 3
        /\ dm.units[ni].ux = 1
        /\ dm.units[ni].si = 7

---------------------------------------------------------------------------
\* C19: for an output-gate layer with OutQ1Only set, a Gating call in any
\* quarter but the first (the second, third or fourth) changes no pool's
\* Cnt and triggers no ClearMaint, even with Now true and Act > 0.
C19_OutGateFirstQuarterOnly ==
    [][\A ly \in DeepLayers :
          (IsGating(ly) /\ Gate[ly].OutGate /\ Gate[ly].OutQ1Only
              /\ ltime.Quarter # Q1)
          => /\ CntOf(GateStates') = CntOf(GateStates)
             /\ last'.decays = <<>>
             /\ Neurons' = Neurons]_vars

---------------------------------------------------------------------------
\* C20: with DA = 0 (normalization and momentum off) a DWt pass adds nothing
\* to any synapse's DWt under either DA policy, yet still updates the trace
\* (Tr receives ntr and the ACh decay, NTr = ntr); with DA # 0 the raw delta
\* is DALrn * Tr, with Tr after adding ntr under current-trial DA and before
\* adding it under delayed DA, in both cases before the decay.
C20_ZeroDANoDelta ==
    [][IsDWt =>
        \A pj \in PrjnNames : \A k \in SynIdx :
          Learns(pj) =>
            LET cur == Prjns[pj].Trace.CurTrlDA
                tr == TrOf(pj, k)
                ntr == NTrOf(pj, k)
                dk == DecayFactor(pj)
                drive == IF cur THEN RAdd(tr, ntr) ELSE tr
            IN  /\ RecvDA(pj) = Zero
                   => /\ Prjns'[pj].Syns[k].DWt = Prjns[pj].Syns[k].DWt
                      /\ hist'.log[pj][k].dwt = Zero
                /\ RecvDA(pj) # Zero
                   => /\ hist'.log[pj][k].dwt = RMul(RecvDALrn(pj), drive)
                      /\ DWtAdded(pj, k) =
                           RMul(Prjns[pj].Learn.Lrate, RMul(RecvDALrn(pj), drive))
                /\ Prjns'[pj].TrSyns[k].NTr = ntr
                /\ Prjns'[pj].TrSyns[k].Tr =
                     IF cur THEN RSub(drive, RMul(dk, drive))
                     ELSE RAdd(RSub(tr, RMul(dk, tr)), ntr)]_vars

\* C20 witness: a pass has run with DA = 0 while DALrn, the stored trace and
\* the trial's ntr were all nonzero: no delta, and the trace has moved
C20_Witness ==
    /\ WasDWt
    /\ \E pj \in PrjnNames : \E k \in SynIdx :
        LET g == hist.log[pj][k]
        IN  /\ g.ran
            /\ g.da = Zero /\ g.daLrn # Zero
            /\ g.tr0 # Zero /\ g.ntr # Zero
            /\ g.dwt = Zero
            /\ Prjns[pj].TrSyns[k].NTr = g.ntr
            /\ Prjns[pj].TrSyns[k].Tr # g.tr0

---------------------------------------------------------------------------
\* C21: OutClearMaint is off after Defaults, and with it off the Gating step
\* of an output-gate layer, gate event or not, leaves the paired maintenance
\* layer's gate states and the super layers' activations as they were.
C21_NoClearWhenOff ==
    [][/\ ~MaintParamsDefaults(ZeroMaint).OutClearMaint
       /\ \A ly \in DeepLayers :
            (IsGating(ly) /\ Gate[ly].OutGate /\ ~Maint[ly].OutClearMaint)
            => /\ \A l2 \in DeepLayers \ {ly} : GateStates'[l2] = GateStates[l2]
               /\ Neurons' = Neurons
               /\ last'.decays = <<>>]_vars

\* C21 witness: with OutClearMaint off the output layer has just had a gate
\* event on a pool whose maintenance pool is established and whose super
\* unit is active, and both are as before
C21_Witness ==
    \E gi \in PoolIdx :
        /\ WasGating(OutD)
        /\ ~Maint[OutD].OutClearMaint
        /\ GateEvt(OutD, gi) /\ CntAt(OutD, gi) = 0
        /\ last.pre[OutD][gi] < 0
        /\ last.pre[MntD][gi] >= 1
        /\ CntAt(MntD, gi) = last.pre[MntD][gi]
        /\ \E ni \in UnitsOf(gi) : Neurons[SuperPFC(MntD)][SuperUnit(ni)] # Zero

---------------------------------------------------------------------------
\* C22: ClearMaint acts only on established maintenance.  When the output
\* layer's gate event calls it for pool gi of the maintenance layer: with
\* Cnt >= 1 the pool's Cnt becomes -1 and the maintenance layer's super pool
\* is decayed once, by the maintenance layer's Clear; with Cnt = 0 (just
\* gated) or Cnt < 0 (idle) the pool's gate state, the super layers and the
\* decays are as if it had not been called.
C22_ClearOnlyEstablished ==
    [][\A gi \in PoolIdx :
          (/\ Evaluated(OutD, gi) /\ GateEvt(OutD, gi)
           /\ Gate[OutD].OutGate /\ Maint[OutD].OutClearMaint
           /\ MaintPFC(OutD) = MntD)
          => LET mine == SelectSeq(last'.decays, LAMBDA d : d[2] = gi)
             IN  IF CntAt(MntD, gi) >= 1
                 THEN /\ CntAt(MntD, gi)' = -1
                      /\ mine = <<<<SuperPFC(MntD), gi, Maint[MntD].Clear>>>>
                      /\ err' = "ok"
                 ELSE /\ GateStates'[MntD][gi] = GateStates[MntD][gi]
                      /\ mine = <<>>
                      /\ \A sl \in SuperLayers : \A ni \in UnitsOf(gi) :
                            Neurons'[sl][SuperUnit(ni)] = Neurons[sl][SuperUnit(ni)]]_vars

\* C22 witness: the output layer's gate event has just called ClearMaint on
\* a maintenance pool gated in the same cycle (Cnt = 0), whose super unit is
\* active: the pool is still just gated and nothing was decayed
C22_Witness ==
    \E gi \in PoolIdx :
        /\ WasGating(OutD)
        /\ Maint[OutD].OutClearMaint /\ MaintPFC(OutD) = MntD
        /\ GateEvt(OutD, gi) /\ CntAt(OutD, gi) = 0
        /\ last.pre[MntD][gi] = 0
        /\ CntAt(MntD, gi) = 0
        /\ last.decays = <<>>
        /\ \E ni \in UnitsOf(gi) : Neurons[SuperPFC(MntD)][SuperUnit(ni)] # Zero

---------------------------------------------------------------------------
\* C23 as stated: a pool's Cnt goes from negative to non-negative only in a
\* Gating step of its layer where the pool has Now true and Act > 0; a
\* QuarterFinal makes a negative Cnt one more negative in a quarter of
\* GateQtr and leaves it on other quarters; and the Maint and MaintGe of the
\* units of an idle pool are 0.
C23_IdleUntilGated ==
    [][\A ly \in DeepLayers : \A gi \in PoolIdx :
          /\ (CntAt(ly, gi) < 0 /\ CntAt(ly, gi)' >= 0) => GateEvtStep(ly, gi)
          /\ (IsQuarterFinal(ly) /\ CntAt(ly, gi) < 0)
             => CntAt(ly, gi)' = IF Has(Gate[ly].GateQtr, ltime.Quarter)
                                 THEN CntAt(ly, gi) - 1 ELSE CntAt(ly, gi)
          /\ CntAt(ly, gi)' < 0
             => \A ni \in UnitsOf(gi) :
                   PFCNeurs'[ly][ni] = [Maint |-> Zero, MaintGe |-> Zero]]_vars

\* C23 amended: the same for Cnt; and while a pool is idle the Maint and
\* MaintGe of its units change only by being zeroed by the layer's DeepMaint
\* (quarter in GateQtr, super layer present), so that units at 0 stay at 0,
\* while the units of a pool that was cleared keep their values until then.
C23_IdleUntilGatedZeroStays ==
    [][\A ly \in DeepLayers : \A gi \in PoolIdx :
          /\ (CntAt(ly, gi) < 0 /\ CntAt(ly, gi)' >= 0) => GateEvtStep(ly, gi)
          /\ (IsQuarterFinal(ly) /\ CntAt(ly, gi) < 0)
             => CntAt(ly, gi)' = IF Has(Gate[ly].GateQtr, ltime.Quarter)
                                 THEN CntAt(ly, gi) - 1 ELSE CntAt(ly, gi)
          /\ (CntAt(ly, gi) < 0 /\ CntAt(ly, gi)' < 0)
             => \A ni \in UnitsOf(gi) :
                   \/ PFCNeurs'[ly][ni] = PFCNeurs[ly][ni]
                   \/ /\ IsDeepMaint(ly)
                      /\ PFCNeurs'[ly][ni] = [Maint |-> Zero, MaintGe |-> Zero]]_vars

\* C23 witness: a quarter boundary in GateQtr has just passed over an idle
\* pool that has Now true and Act > 0 but whose layer did not run Gating:
\* the pool is one further idle and its units are at 0
C23_Witness ==
    \E gi \in PoolIdx :
        /\ WasQuarterFinal(MntD)
        /\ Has(Gate[MntD].GateQtr, ltime.Quarter)
        /\ GateEvt(MntD, gi)
        /\ last.pre[MntD][gi] = -1
        /\ CntAt(MntD, gi) = -2
        /\ \A ni \in UnitsOf(gi) :
              PFCNeurs[MntD][ni] = [Maint |-> Zero, MaintGe |-> Zero]

---------------------------------------------------------------------------
\* the two layers' Gating of one cycle, first's before second's, from the
\* current state (a panic in the first ends the run)
GatingBoth(first, second) ==
    LET s1 == Gating(first, CurSt)
    IN  IF s1.err = "panic" THEN s1 ELSE Gating(second, s1)
\* how many times pool gi of the maintenance layer's super layer is decayed
NDecays(st, gi) ==
    Len(SelectSeq(st.decays, LAMBDA d : d[1] = SubSeq(MntD, 1, Len(MntD) - 1)
                                        /\ d[2] = gi))
\* an output-gate layer with OutClearMaint on and its maintenance layer
PairedClearing ==
    /\ err = "ok"
    /\ {MntD, OutD} \subseteq net
    /\ Gate[OutD].OutGate /\ Maint[OutD].OutClearMaint

\* C24 as stated: when the output-gate layer (OutClearMaint on) and its
\* maintenance layer both run Gating in one cycle, the maintenance pool's
\* Cnt and the number of decays of its super pool are the same in either
\* order.
C24_OrderIndependent ==
    PairedClearing
    => \A gi \in PoolIdx :
         /\ GatingBoth(MntD, OutD).GS[MntD][gi].Cnt
              = GatingBoth(OutD, MntD).GS[MntD][gi].Cnt
         /\ NDecays(GatingBoth(MntD, OutD), gi) = NDecays(GatingBoth(OutD, MntD), gi)

\* C24 amended: the maintenance pool's Cnt is the same in either order, but
\* the number of decays is not: when the output layer's gate event finds
\* the maintenance pool established (Cnt >= 1) and the maintenance layer's
\* own Gating resets that pool in the same cycle (a gate event, or Now with
\* Cnt >= MaxMaint), the super pool is decayed once more when the output
\* layer runs first; in every other case the counts are equal.
C24_CntOrderIndependent ==
    PairedClearing
    => \A gi \in PoolIdx :
         /\ GatingBoth(MntD, OutD).GS[MntD][gi].Cnt
              = GatingBoth(OutD, MntD).GS[MntD][gi].Cnt
         /\ NDecays(GatingBoth(OutD, MntD), gi) - NDecays(GatingBoth(MntD, OutD), gi)
              = IF /\ ~GatingSkipped(OutD) /\ GateEvt(OutD, gi)
                   /\ CntAt(MntD, gi) >= 1
                   /\ NowAt(MntD, gi)
                   /\ ActPos(MntD, gi) \/ CntAt(MntD, gi) >= Maint[MntD].MaxMaint
                THEN 1 ELSE 0

\* C24 witness: the output layer ran Gating first and has just cleared an
\* established maintenance pool that has a gate event of its own pending in
\* the same cycle, so that the other order decays once and this one twice
C24_Witness ==
    \E gi \in PoolIdx :
        /\ WasGating(OutD) /\ PairedClearing
        /\ last.pre[MntD][gi] >= 1
        /\ CntAt(MntD, gi) = -1
        /\ Len(last.decays) = 1
        /\ GateEvt(MntD, gi)
        /\ Gating(MntD, CurSt).GS[MntD][gi].Cnt = 0
        /\ NDecays(Gating(MntD, CurSt), gi) = 1

===========================================================================
